---- MODULE Spec2Model ----
(***************************************************************************)
(* A model of the storage-and-transaction kernel of mydb (engine crate):   *)
(* the buffer pool over the page file, the lock manager, the write-ahead   *)
(* log with crash recovery, the B+Tree index and the Storage facade, the   *)
(* slotted page, the catalog and the deadlock detector, and of the SQL     *)
(* lexer and the plan optimizer of its query layer.                        *)
(* Each subsystem has its own variables and its own specification; the     *)
(* variables of the other subsystems stay at their initial value.          *)
(*                                                                         *)
(* Conventions: a file system call succeeds unless the source makes it     *)
(* fail by its own logic (a read past the end of the file); a Rust panic   *)
(* ends the operation where it stands and keeps the state it had reached.  *)
(***************************************************************************)
EXTENDS Integers, Sequences, FiniteSets, TLC

(***************************************************************************)
(* The state. Buffer pool: bp is the BufferPool value; bp_ver numbers the  *)
(* stores the clients make; bp_expect is the data the stored page had when *)
(* it was last unpinned dirty and bp_last the last call made, with the     *)
(* pages flush_all found dirty (history, read by no action).               *)
(***************************************************************************)
VARIABLES bp, bp_ver, bp_expect, bp_last

bp_vars == <<bp, bp_ver, bp_expect, bp_last>>

(***************************************************************************)
(* Lock manager: lm_table is the lock table (resource -> LockState);       *)
(* lm_pc[tx] says where transaction tx stands ("run", "wait" inside        *)
(* lock(), "unlock" inside unlock_all()); lm_rem[tx] lists the resources   *)
(* unlock_all(tx) has still to visit; lm_woken holds the waiters whose     *)
(* one-shot channel has fired.                                             *)
(***************************************************************************)
VARIABLES lm_table, lm_pc, lm_rem, lm_woken

lm_vars == <<lm_table, lm_pc, lm_rem, lm_woken>>

(***************************************************************************)
(* Write-ahead log and recovery: lg is the LogManagerInner value, wal the  *)
(* records of the WAL file that are on stable storage; wal_pc[tx] says     *)
(* where transaction tx stands, wal_ret[tx] is the LSN its last append     *)
(* returned, wal_hist[tx] the records appended for it (history). db is the *)
(* data file, db_mem the content of its page in memory. crashed is set by  *)
(* the crash; rec_runs counts the runs of recover() since, rec_failed says *)
(* one of them did not return Ok, rec_snap is the data file as the first   *)
(* run left it (history).                                                  *)
(***************************************************************************)
VARIABLES lg, wal, wal_pc, wal_ret, wal_hist, db, db_mem, crashed, rec_runs, rec_failed, rec_snap

wal_vars == <<lg, wal, wal_pc, wal_ret, wal_hist, db, db_mem, crashed, rec_runs, rec_failed, rec_snap>>

(***************************************************************************)
(* Storage facade: st is the Storage value [buffer_pool, free_list,        *)
(* page_size]; st_build is the build profile of the binary ("debug" checks *)
(* integer overflow, "release" wraps); st_log lists the insert calls made  *)
(* with their outcome (history).                                           *)
(***************************************************************************)
VARIABLES st, st_build, st_log

st_vars == <<st, st_build, st_log>>

(***************************************************************************)
(* B+Tree: bt is the BPlusTree value [storage, order, root_page]; bt_done  *)
(* lists the insert calls made (history); bt_last is the outcome of the    *)
(* last call; bt_ok says that every insert so far returned Ok, bt_again    *)
(* counts the inserts of a key inserted before (history).                  *)
(***************************************************************************)
VARIABLES bt, bt_done, bt_last, bt_ok, bt_again

bt_vars == <<bt, bt_done, bt_last, bt_ok, bt_again>>

(***************************************************************************)
(* Query server: rq[r] is the request task r of handle_request, with its   *)
(* position pc, the statement it parsed (stmt on table res), the           *)
(* transaction id it drew (tx, 0 before begin) and closed, which says that *)
(* log_commit or log_abort has been called for tx; tx_counter is           *)
(* TX_COUNTER. The server works on lg, wal, db, lm_table and lm_woken.     *)
(***************************************************************************)
VARIABLES rq, tx_counter

sv_vars == <<rq, tx_counter>>

(***************************************************************************)
(* Tables and scans: sc is a Storage value with tables in its catalog;     *)
(* sc_last is the outcome of the last sequential scan: the table, the RIDs *)
(* the scan queued and the table's records list when it ran.               *)
(***************************************************************************)
VARIABLES sc, sc_last

sc_vars == <<sc, sc_last>>

(***************************************************************************)
(* One slotted page: pg is the bytes of the page, pg_log lists the         *)
(* insert_tuple calls made on it with their outcome and the free space     *)
(* before and after (history).                                             *)
(***************************************************************************)
VARIABLES pg, pg_log

pg_vars == <<pg, pg_log>>

(***************************************************************************)
(* Page file, byte for byte: pf is the content of the file, pf_latest maps *)
(* each page number to the buffer of the last write_page of it that        *)
(* returned Ok (history), pf_last is the outcome of the last call.         *)
(***************************************************************************)
VARIABLES pf, pf_latest, pf_last

pf_vars == <<pf, pf_latest, pf_last>>

(***************************************************************************)
(* Torn log write: tw is the partial record the WAL file ends with, None   *)
(* or Some of [present, record] (the bytes of the record that reached the  *)
(* file, of the record as flush serialized it); tw_last is the outcome of  *)
(* the recovery run over that file.                                        *)
(***************************************************************************)
VARIABLES tw, tw_last

tw_vars == <<tw, tw_last>>

(***************************************************************************)
(* Parser::new: lx is the Lexer (input, the characters its Peekable<Chars> *)
(* has still to yield; src; idx), lx_tokens the Vec the loop of            *)
(* Parser::new has pushed so far, lx_pc where the call stands ("idle",     *)
(* "lexing", "done", "error").                                             *)
(***************************************************************************)
VARIABLES lx, lx_tokens, lx_pc

lx_vars == <<lx, lx_tokens, lx_pc>>

(***************************************************************************)
(* Optimizer::optimize: opt_in is the plan the call was given, opt_cur the *)
(* `current` of its loop (the plan returned, once opt_pc is "done"),       *)
(* opt_passes the number of turns the loop has taken, opt_pc where the     *)
(* call stands ("idle", "loop", "done").                                   *)
(***************************************************************************)
VARIABLES opt_in, opt_cur, opt_passes, opt_pc

opt_vars == <<opt_in, opt_cur, opt_passes, opt_pc>>

vars == <<bp_vars, lm_vars, wal_vars, st_vars, bt_vars, sv_vars, sc_vars, pg_vars, pf_vars, tw_vars, lx_vars, opt_vars>>

\* What the actions of one subsystem leave unchanged.
bp_others == <<lm_vars, wal_vars, st_vars, bt_vars, sv_vars, sc_vars, pg_vars, pf_vars, tw_vars, lx_vars, opt_vars>>
lm_others == <<bp_vars, wal_vars, st_vars, bt_vars, sv_vars, sc_vars, pg_vars, pf_vars, tw_vars, lx_vars, opt_vars>>
wal_others == <<bp_vars, lm_vars, st_vars, bt_vars, sv_vars, sc_vars, pg_vars, pf_vars, tw_vars, lx_vars, opt_vars>>
st_others == <<bp_vars, lm_vars, wal_vars, bt_vars, sv_vars, sc_vars, pg_vars, pf_vars, tw_vars, lx_vars, opt_vars>>
bt_others == <<bp_vars, lm_vars, wal_vars, st_vars, sv_vars, sc_vars, pg_vars, pf_vars, tw_vars, lx_vars, opt_vars>>
sc_others == <<bp_vars, lm_vars, wal_vars, st_vars, bt_vars, sv_vars, pg_vars, pf_vars, tw_vars, lx_vars, opt_vars>>
pg_others == <<bp_vars, lm_vars, wal_vars, st_vars, bt_vars, sv_vars, sc_vars, pf_vars, tw_vars, lx_vars, opt_vars>>
pf_others == <<bp_vars, lm_vars, wal_vars, st_vars, bt_vars, sv_vars, sc_vars, pg_vars, tw_vars, lx_vars, opt_vars>>
tw_others == <<bp_vars, lm_vars, st_vars, bt_vars, sv_vars, sc_vars, pg_vars, pf_vars, lx_vars, opt_vars>>
lx_others == <<bp_vars, lm_vars, wal_vars, st_vars, bt_vars, sv_vars, sc_vars, pg_vars, pf_vars, tw_vars, opt_vars>>
opt_others == <<bp_vars, lm_vars, wal_vars, st_vars, bt_vars, sv_vars, sc_vars, pg_vars, pf_vars, tw_vars, lx_vars>>
sv_others == <<bp_vars, st_vars, bt_vars, sc_vars, pg_vars, pf_vars, tw_vars, lx_vars, opt_vars, lm_pc, lm_rem, wal_pc, wal_ret, wal_hist, db_mem, crashed, rec_runs, rec_failed, rec_snap>>

(***************************************************************************)
(* Small helpers.                                                          *)
(***************************************************************************)
Max(a, b) == IF a >= b THEN a ELSE b

Range(s) == {s[i] : i \in 1..Len(s)}

\* Option<T>: None and Some(x).
None == <<>>
Some(x) == <<x>>
unwrap_or(opt, default) == IF opt = None THEN default ELSE opt[1]

\* Vec::remove(i) / VecDeque::remove(i), 0-based index i.
RemoveAt(s, i) == SubSeq(s, 1, i) \o SubSeq(s, i + 2, Len(s))

\* Vec::insert(i, x), 0-based index i.
InsertAt(s, i, x) == SubSeq(s, 1, i) \o <<x>> \o SubSeq(s, i + 1, Len(s))

(***************************************************************************)
(* PageFile (storage/pagefile.rs). A file is the sequence of its pages,    *)
(* page n at index n+1; every write is a whole page, so the file length is *)
(* always a multiple of page_size.                                         *)
(***************************************************************************)
num_pages(file) == Len(file)

\* read_page: Err(UnexpectedEof) when fewer than page_size bytes are there.
read_page(file, page_no) ==
    IF page_no < Len(file)
    THEN [ok |-> TRUE, data |-> <<file[page_no + 1]>>]
    ELSE [ok |-> FALSE, data |-> <<>>]

\* write_page: seek + write_all; a write past the end leaves a hole of zero
\* pages before it.
write_page(file, page_no, buf, zero) ==
    IF page_no < Len(file)
    THEN [file EXCEPT ![page_no + 1] = buf]
    ELSE file \o [i \in 1..(page_no - Len(file)) |-> zero] \o <<buf>>

\* allocate_page: the zero-filled page written at num_pages().
allocate_page(file, zero) ==
    [page_no |-> num_pages(file), file |-> write_page(file, num_pages(file), zero, zero)]

(***************************************************************************)
(* BufferPool (storage/buffer_pool.rs). A pool value is the record         *)
(*   [pool, capacity, eviction_queue, clock_hand, pagefile, zero]          *)
(* where pool maps each resident page to its Frame and zero is the         *)
(* zero-filled page of the page format in use.                             *)
(***************************************************************************)
Frame(page_no, data) ==
    [page_no |-> page_no, data |-> data, is_dirty |-> FALSE, pin_count |-> 0, ref_bit |-> FALSE]

BufferPool_new(file, capacity, zero) ==
    [pool |-> <<>>, capacity |-> capacity, eviction_queue |-> <<>>, clock_hand |-> 0,
     pagefile |-> file, zero |-> zero]

Resident(b) == DOMAIN b.pool

\* buffer_pool.rs:92, the test that lets a frame be considered for eviction.
IsPinned_Never(frame) == FALSE

IsPinned(frame) == frame.pin_count # 0

\* buffer_pool.rs:99-101, the write-back of a dirty victim.
EvictWriteBack_Skip(b, frame) == b.pagefile

EvictWriteBack(b, frame) ==
    IF frame.is_dirty
    THEN write_page(b.pagefile, frame.page_no, frame.data, b.zero)
    ELSE b.pagefile

\* buffer_pool.rs:40, the test that decides whether a victim is needed.
PoolFull_OffByOne(b) == Cardinality(DOMAIN b.pool) > b.capacity

PoolFull(b) == Cardinality(DOMAIN b.pool) = b.capacity

\* HashMap::remove
PoolRemove(pool, page_no) == [p \in (DOMAIN pool) \ {page_no} |-> pool[p]]

\* HashMap::insert
PoolInsert(pool, page_no, frame) ==
    [p \in (DOMAIN pool) \cup {page_no} |-> IF p = page_no THEN frame ELSE pool[p]]

\* evict_one: the CLOCK scan, `n` iterations left of the `len` the loop makes.
\* Indexing eviction_queue past its end panics.
RECURSIVE EvictScan(_, _, _)
EvictScan(b, n, len) ==
    IF n = 0 THEN [ok |-> FALSE, panic |-> FALSE, bp |-> b]
    ELSE IF b.clock_hand >= Len(b.eviction_queue) THEN [ok |-> FALSE, panic |-> TRUE, bp |-> b]
    ELSE
      LET page_no == b.eviction_queue[b.clock_hand + 1]
          frame == b.pool[page_no]
      IN IF ~IsPinned(frame)
         THEN IF frame.ref_bit
              THEN EvictScan([b EXCEPT !.pool[page_no].ref_bit = FALSE,
                                       !.clock_hand = (b.clock_hand + 1) % len],
                             n - 1, len)
              ELSE [ok |-> TRUE, panic |-> FALSE,
                    bp |-> [b EXCEPT !.pagefile = EvictWriteBack(b, frame),
                                     !.pool = PoolRemove(b.pool, page_no),
                                     !.eviction_queue = RemoveAt(b.eviction_queue, b.clock_hand)]]
         ELSE EvictScan([b EXCEPT !.clock_hand = (b.clock_hand + 1) % len], n - 1, len)

evict_one(b) == EvictScan(b, Len(b.eviction_queue), Len(b.eviction_queue))

\* fetch_page, the part that pins (buffer_pool.rs:56-59).
PinFrame(b, page_no) ==
    [b EXCEPT !.pool[page_no].pin_count = @ + 1, !.pool[page_no].ref_bit = TRUE]

\* fetch_page: [ok, panic, bp]; on success the frame is b.pool[page_no].
fetch_page(b, page_no) ==
    IF page_no \in DOMAIN b.pool
    THEN [ok |-> TRUE, panic |-> FALSE, bp |-> PinFrame(b, page_no)]
    ELSE
      LET e == IF PoolFull(b) THEN evict_one(b) ELSE [ok |-> TRUE, panic |-> FALSE, bp |-> b]
      IN IF ~e.ok THEN e
         ELSE LET r == read_page(e.bp.pagefile, page_no)
              IN IF ~r.ok THEN [ok |-> FALSE, panic |-> FALSE, bp |-> e.bp]
                 ELSE [ok |-> TRUE, panic |-> FALSE,
                       bp |-> PinFrame([e.bp EXCEPT
                                 !.pool = PoolInsert(e.bp.pool, page_no, Frame(page_no, r.data[1])),
                                 !.eviction_queue = Append(e.bp.eviction_queue, page_no)],
                               page_no)]

\* unpin_page
unpin_page(b, page_no, is_dirty) ==
    IF page_no \in DOMAIN b.pool
    THEN [b EXCEPT !.pool[page_no].pin_count = IF @ > 0 THEN @ - 1 ELSE @,
                   !.pool[page_no].is_dirty = IF is_dirty THEN TRUE ELSE @]
    ELSE b

\* A store through the &mut Frame that fetch_page returned (frame.data = ...).
SetFrameData(b, page_no, data) == [b EXCEPT !.pool[page_no].data = data]

\* A flush that clears the dirty flags and writes nothing.
FlushFrames_NoWrite(b, pages) ==
    [b EXCEPT !.pool = [p \in DOMAIN b.pool |-> [b.pool[p] EXCEPT !.is_dirty = FALSE]]]

\* flush_all: every dirty frame is written and cleaned (the iteration order of
\* the HashMap does not matter: the frames are of different pages).
RECURSIVE FlushFrames(_, _)
FlushFrames(b, pages) ==
    IF pages = {} THEN b
    ELSE LET p == CHOOSE q \in pages : TRUE
             f == b.pool[p]
             b1 == IF f.is_dirty
                   THEN [b EXCEPT !.pagefile = write_page(b.pagefile, p, f.data, b.zero),
                                  !.pool[p].is_dirty = FALSE]
                   ELSE b
         IN FlushFrames(b1, pages \ {p})

flush_all(b) == FlushFrames(b, DOMAIN b.pool)

\* What a reader of page_no gets: the frame if resident, else the file.
Visible(b, page_no) ==
    IF page_no \in DOMAIN b.pool THEN b.pool[page_no].data ELSE b.pagefile[page_no + 1]

(***************************************************************************)
(* The buffer pool driven through its public API (as tests/buffer_pool_    *)
(* tests.rs drives it): a file of BPPages pages, a pool of BPCapacity      *)
(* frames. The data of a page is the number of the last store made to it.  *)
(***************************************************************************)
BPCapacity == 2
BPPages == BPCapacity + 1
MaxPin == 1
MaxWrites == 1

\* The page the clients store to; the other pages are read and make the pool evict.
StoredPage == CHOOSE p \in 0..(BPPages - 1) : \A q \in 0..(BPPages - 1) : p <= q

\* Pages the clients ask for: the pages of the file and one past its end.
BPAsked == 0..BPPages

BPInit ==
    /\ bp = BufferPool_new([i \in 1..BPPages |-> 0], BPCapacity, 0)
    /\ bp_ver = 1
    /\ bp_expect = 0
    /\ bp_last = [op |-> "new", dirty |-> {}]

\* fetch_page(page_no), the caller then storing into the frame or not.
BPFetch(page_no, store) ==
    /\ page_no \in Resident(bp) => bp.pool[page_no].pin_count < MaxPin
    /\ store => page_no = StoredPage /\ bp_ver <= MaxWrites
    /\ LET r == fetch_page(bp, page_no)
       IN /\ bp' = IF r.ok /\ store THEN SetFrameData(r.bp, page_no, bp_ver) ELSE r.bp
          /\ bp_ver' = IF r.ok /\ store THEN bp_ver + 1 ELSE bp_ver
    /\ bp_last' = [op |-> "fetch_page", dirty |-> {}]
    /\ UNCHANGED <<bp_expect, bp_others>>

\* unpin_page(page_no, is_dirty)
BPUnpin(page_no, is_dirty) ==
    /\ bp' = unpin_page(bp, page_no, is_dirty)
    /\ bp_expect' = IF is_dirty /\ page_no = StoredPage /\ page_no \in Resident(bp)
                    THEN bp.pool[page_no].data
                    ELSE bp_expect
    /\ bp_last' = [op |-> "unpin_page", dirty |-> {}]
    /\ UNCHANGED <<bp_ver, bp_others>>

\* flush_all()
BPFlushAll ==
    /\ bp' = flush_all(bp)
    /\ bp_last' = [op |-> "flush_all", dirty |-> {p \in Resident(bp) : bp.pool[p].is_dirty}]
    /\ UNCHANGED <<bp_ver, bp_expect, bp_others>>

BPNext ==
    \/ \E p \in BPAsked, s \in BOOLEAN : BPFetch(p, s)
    \/ \E p \in 0..(BPPages - 1), d \in BOOLEAN : BPUnpin(p, d)
    \/ BPFlushAll

(***************************************************************************)
(* Claims about the buffer pool, checked under SpecBP.                     *)
(***************************************************************************)
ExistingPages == 0..(BPPages - 1)

\* C6: in every reachable state of the pool, whatever fetches (failing ones
\* included), unpins and flushes led to it, the number of resident pages is
\* at most the capacity.
C6_ResidentAtMostCapacity ==
    /\ Cardinality(Resident(bp)) <= bp.capacity
    /\ Len(bp.eviction_queue) = Cardinality(Resident(bp))

\* The pool is full again after it evicted the stored page.
C6_Witness ==
    /\ Cardinality(Resident(bp)) = BPCapacity
    /\ bp_ver > 1
    /\ StoredPage \notin Resident(bp)

\* C7: no step removes from the pool a frame whose pin_count is above 0.
C7_PinnedNeverEvicted ==
    [][\A p \in Resident(bp) : bp.pool[p].pin_count > 0 => p \in Resident(bp)']_vars

\* A frame is pinned in a pool that has evicted another page.
C7_Witness ==
    /\ \E p \in Resident(bp) : bp.pool[p].pin_count > 0
    /\ bp_ver > 1
    /\ StoredPage \notin Resident(bp)

\* C8: a fetch of a page that is not resident, made while the pool is full and
\* some resident frame is unpinned, evicts an unpinned frame and succeeds.
C8_FetchSucceedsIfSomeFrameUnpinned ==
    \A p \in ExistingPages :
        ( /\ p \notin Resident(bp)
          /\ PoolFull(bp)
          /\ \E q \in Resident(bp) : bp.pool[q].pin_count = 0 )
        => LET r == fetch_page(bp, p)
           IN /\ r.ok
              /\ p \in Resident(r.bp)
              /\ \E q \in Resident(bp) : bp.pool[q].pin_count = 0 /\ q \notin Resident(r.bp)

\* C9: once the stored page was unpinned dirty with some data, a reader of the
\* page gets that data or a later store's, whether the page stayed resident or
\* was evicted and is read back from the file.
C9_NoLostUpdate == bp_expect <= Visible(bp, StoredPage)

\* The stored page was modified, unpinned dirty and evicted.
C9_Witness ==
    /\ bp_expect > 0
    /\ StoredPage \notin Resident(bp)

\* C24: after flush_all no resident frame is dirty, the file holds the data
\* of every frame that was dirty (a page file opened again reads it), and
\* the resident pages, their data and their pin counts are what they were.
C24_FlushAllWritesDirtyFrames ==
    [][bp_last'.op = "flush_all" =>
          /\ \A p \in Resident(bp') : ~bp'.pool[p].is_dirty
          /\ \A p \in bp_last'.dirty :
                read_page(bp'.pagefile, p) = [ok |-> TRUE, data |-> <<bp.pool[p].data>>]
          /\ Resident(bp') = Resident(bp)
          /\ \A p \in Resident(bp) :
                /\ bp'.pool[p].pin_count = bp.pool[p].pin_count
                /\ bp'.pool[p].data = bp.pool[p].data]_vars

\* flush_all has run on a pool with a dirty frame and a pinned frame, and
\* the file has the stored data.
C24_Witness ==
    /\ bp_last.op = "flush_all"
    /\ bp_last.dirty # {}
    /\ \E p \in Resident(bp) : bp.pool[p].pin_count > 0
    /\ bp.pagefile[StoredPage + 1] > 0

\* The step to the primed state is a fetch_page(page_no) that returned an
\* error.
FetchFailed(page_no) ==
    /\ bp_last'.op = "fetch_page"
    /\ ~fetch_page(bp, page_no).ok
    /\ bp' = fetch_page(bp, page_no).bp

\* C37: a fetch_page that fails, because the page cannot be read from the
\* file or because no frame can be evicted, evicts no resident page and
\* changes no pin count, dirty flag or data of a resident frame.
C37_FailedFetchChangesNothing ==
    [][\A page_no \in BPAsked :
          FetchFailed(page_no) =>
              /\ Resident(bp') = Resident(bp)
              /\ \A p \in Resident(bp) :
                    /\ bp'.pool[p].pin_count = bp.pool[p].pin_count
                    /\ bp'.pool[p].is_dirty = bp.pool[p].is_dirty
                    /\ bp'.pool[p].data = bp.pool[p].data]_vars

(***************************************************************************)
(* LockManager (tx/lock_manager.rs). A LockState is [holders, queue]:      *)
(* holders a sequence of <<tx, mode>>, queue a sequence of [tx, mode].     *)
(***************************************************************************)
Shared == "Shared"
Exclusive == "Exclusive"

LockState_new == [holders |-> <<>>, queue |-> <<>>]

AllShared(holders) == \A i \in 1..Len(holders) : holders[i][2] = Shared

\* can_grant with the Exclusive arm answering like the Shared one.
can_grant_IgnoreMode(state, mode) ==
    IF state.holders = <<>> THEN TRUE ELSE AllShared(state.holders)

\* LockState::can_grant
can_grant(state, mode) ==
    IF state.holders = <<>> THEN TRUE
    ELSE IF mode = Shared THEN AllShared(state.holders)
    ELSE FALSE

\* HashMap::entry(res).or_insert_with(LockState::new)
TableEntry(tbl, res) ==
    IF res \in DOMAIN tbl THEN tbl
    ELSE [r \in (DOMAIN tbl) \cup {res} |-> IF r = res THEN LockState_new ELSE tbl[r]]

\* unlock_all, lines 134-136: may the head of the queue be granted now?
HeadGrantable(holders, head) ==
    \/ holders = <<>>
    \/ (head.mode = Shared /\ AllShared(holders))

\* unlock_all, lines 132-150: grant from the head of the queue while possible.
\* [holders, queue, to_wake]
RECURSIVE GrantScan(_, _, _)
GrantScan(holders, queue, to_wake) ==
    IF queue = <<>> THEN [holders |-> holders, queue |-> queue, to_wake |-> to_wake]
    ELSE IF HeadGrantable(holders, Head(queue))
         THEN LET req == Head(queue)
                  h2 == Append(holders, <<req.tx, req.mode>>)
              IN IF req.mode = Exclusive
                 THEN [holders |-> h2, queue |-> Tail(queue), to_wake |-> to_wake \cup {req.tx}]
                 ELSE GrantScan(h2, Tail(queue), to_wake \cup {req.tx})
         ELSE [holders |-> holders, queue |-> queue, to_wake |-> to_wake]

\* retain with the test inverted: the entries of tx are the ones kept.
Retain_Inverted(holders, tx) == SelectSeq(holders, LAMBDA h : h[1] = tx)

\* holders.retain(|&(holder_tx, _)| holder_tx != tx)
Retain(holders, tx) == SelectSeq(holders, LAMBDA h : h[1] # tx)

\* unlock_all, the body of the loop for one resource.
UnlockResource(state, tx) == GrantScan(Retain(state.holders, tx), state.queue, {})

\* unlock_all: the resources of `rem` are visited in order under the table
\* mutex; the mutex is dropped (and taken again) after a resource whose visit
\* woke somebody. [table, rem, to_wake]: the table when the mutex is dropped or
\* the function returns, the resources left, the waiters to wake.
RECURSIVE UnlockRun(_, _, _)
UnlockRun(tbl, tx, rem) ==
    IF rem = <<>> THEN [table |-> tbl, rem |-> <<>>, to_wake |-> {}]
    ELSE LET res == Head(rem)
             u == UnlockResource(tbl[res], tx)
             tbl2 == [tbl EXCEPT ![res] = [holders |-> u.holders, queue |-> u.queue]]
         IN IF u.to_wake # {}
            THEN [table |-> tbl2, rem |-> Tail(rem), to_wake |-> u.to_wake]
            ELSE UnlockRun(tbl2, tx, Tail(rem))

\* The orders in which tbl.keys() may list the resources of the table.
KeyOrders(tbl) ==
    {s \in [1..Cardinality(DOMAIN tbl) -> DOMAIN tbl] :
        \A i, j \in 1..Cardinality(DOMAIN tbl) : i # j => s[i] # s[j]}

(***************************************************************************)
(* The lock manager driven by NumTx transactions over two resources.       *)
(* A transaction calls lock() for resources it neither holds nor waits     *)
(* for, and unlock_all() whenever it is running.                           *)
(***************************************************************************)
NumTx == 3

Txs == 1..NumTx
\* Resource::Table of two table names.
Resources == {"accounts", "orders"}
Modes == {Shared, Exclusive}

HoldersOf(tbl, res) == IF res \in DOMAIN tbl THEN {tbl[res].holders[i][1] : i \in 1..Len(tbl[res].holders)} ELSE {}
WaitersOf(tbl, res) == IF res \in DOMAIN tbl THEN {tbl[res].queue[i].tx : i \in 1..Len(tbl[res].queue)} ELSE {}

LMInit ==
    /\ lm_table = <<>>
    /\ lm_pc = [t \in Txs |-> "run"]
    /\ lm_rem = [t \in Txs |-> <<>>]
    /\ lm_woken = {}

\* lock(tx, res, mode) up to the point where the mutex guard is dropped.
Lock(tx, res, mode) ==
    /\ lm_pc[tx] = "run"
    /\ tx \notin HoldersOf(lm_table, res) \cup WaitersOf(lm_table, res)
    /\ LET tbl == TableEntry(lm_table, res)
           state == tbl[res]
       IN IF can_grant(state, mode)
          THEN /\ lm_table' = [tbl EXCEPT ![res].holders = Append(@, <<tx, mode>>)]
               /\ lm_pc' = lm_pc
          ELSE /\ lm_table' = [tbl EXCEPT ![res].queue = Append(@, [tx |-> tx, mode |-> mode])]
               /\ lm_pc' = [lm_pc EXCEPT ![tx] = "wait"]
    /\ UNCHANGED <<lm_rem, lm_woken, lm_others>>

\* lock(): rx_wake.await completes, the call returns.
LockReturn(tx) ==
    /\ lm_pc[tx] = "wait"
    /\ tx \in lm_woken
    /\ lm_pc' = [lm_pc EXCEPT ![tx] = "run"]
    /\ lm_woken' = lm_woken \ {tx}
    /\ UNCHANGED <<lm_table, lm_rem, lm_others>>

\* One stretch of unlock_all(tx) under the mutex, over the resources `rem`.
UnlockStretch(tx, rem) ==
    LET u == UnlockRun(lm_table, tx, rem)
    IN /\ lm_table' = u.table
       /\ lm_rem' = [lm_rem EXCEPT ![tx] = u.rem]
       /\ lm_woken' = lm_woken \cup u.to_wake
       /\ lm_pc' = [lm_pc EXCEPT ![tx] = IF u.rem = <<>> THEN "run" ELSE "unlock"]
       /\ UNCHANGED lm_others

\* unlock_all(tx): the mutex is taken, the keys are collected, the first
\* stretch runs.
UnlockAll(tx) ==
    /\ lm_pc[tx] = "run"
    /\ \E order \in KeyOrders(lm_table) : UnlockStretch(tx, order)

\* unlock_all(tx) takes the mutex again after waking (line 158) and goes on.
UnlockResume(tx) ==
    /\ lm_pc[tx] = "unlock"
    /\ UnlockStretch(tx, lm_rem[tx])

LMNext ==
    \/ \E tx \in Txs, res \in Resources, mode \in Modes : Lock(tx, res, mode)
    \/ \E tx \in Txs : LockReturn(tx)
    \/ \E tx \in Txs : UnlockAll(tx)
    \/ \E tx \in Txs : UnlockResume(tx)

(***************************************************************************)
(* Claims about the lock manager, checked under SpecLock.                  *)
(***************************************************************************)
\* C1: whatever the interleaving of lock and unlock_all calls, the holders of a
\* resource are all Shared or there is exactly one holder: two transactions
\* never hold conflicting modes on one resource.
C1_NoConflictingHolders ==
    \A res \in DOMAIN lm_table :
        LET h == lm_table[res].holders
        IN \A i, j \in 1..Len(h) :
              i # j => (h[i][1] # h[j][1] /\ h[i][2] = Shared /\ h[j][2] = Shared)

\* Two Shared holders share a resource on which an Exclusive request waits,
\* while a waiter granted by unlock_all has been woken.
C1_Witness ==
    /\ lm_woken # {}
    /\ \E res \in DOMAIN lm_table :
          /\ Len(lm_table[res].holders) >= 2
          /\ lm_table[res].queue # <<>>
          /\ Head(lm_table[res].queue).mode = Exclusive

\* T1 holds res in Exclusive mode and T2's Shared request is the first waiting.
WriterBlocksReader(t1, t2, res) ==
    /\ res \in DOMAIN lm_table
    /\ lm_table[res].holders = <<<<t1, Exclusive>>>>
    /\ lm_table[res].queue # <<>>
    /\ Head(lm_table[res].queue) = [tx |-> t2, mode |-> Shared]

EarlierWaiters(tbl, res, tx) ==
    IF res \notin DOMAIN tbl THEN {}
    ELSE LET q == tbl[res].queue
             at == {i \in 1..Len(q) : q[i].tx = tx}
         IN {q[i].tx : i \in {k \in 1..Len(q) : \A a \in at : k < a}}

\* C11: grants on one resource are strictly FIFO: whenever a transaction becomes
\* a holder of a resource, by lock() or by unlock_all(), no request that was
\* queued on that resource before its own is still waiting.
C11_GrantsAreFIFO ==
    [][\A res \in DOMAIN lm_table' :
          \A tx \in HoldersOf(lm_table', res) \ HoldersOf(lm_table, res) :
              EarlierWaiters(lm_table, res, tx) \cap WaitersOf(lm_table', res) = {}]_vars

\* C28: unlock_all(tx) releases the locks of tx in one critical section of
\* the table mutex: a step that removes tx from the holders of a resource
\* leaves it a holder of no resource when the mutex is released.
C28_UnlockAllIsAtomic ==
    [][\A tx \in Txs :
          (\E res \in DOMAIN lm_table :
              tx \in HoldersOf(lm_table, res) \ HoldersOf(lm_table', res))
          => \A res \in DOMAIN lm_table' : tx \notin HoldersOf(lm_table', res)]_vars

\* No request that could be granted is waiting on res.
NoGrantableWaiter(tbl, res) ==
    tbl[res].queue # <<>> =>
        /\ tbl[res].holders # <<>>
        /\ \/ Head(tbl[res].queue).mode = Exclusive
           \/ ~AllShared(tbl[res].holders)

\* tx holds no lock.
HoldsNothing(tx) == \A res \in DOMAIN lm_table : tx \notin HoldersOf(lm_table, res)

\* C32: whenever the table mutex is free, every resource with a waiting
\* request has holders with which the request at the head of its queue
\* conflicts; and if every transaction that holds a lock comes to release
\* its locks by unlock_all, again and again, every waiting request is
\* eventually granted.
C32_NoGrantableRequestWaits ==
    /\ [](\A res \in DOMAIN lm_table : NoGrantableWaiter(lm_table, res))
    /\ (\A tx \in Txs : []<>HoldsNothing(tx))
          => \A tx \in Txs, res \in Resources :
                 (tx \in WaitersOf(lm_table, res)) ~> (tx \in HoldersOf(lm_table, res))

(***************************************************************************)
(* A transaction aborted while its lock request waits: somebody else (the  *)
(* handler of a deadlock, of a failed statement) calls unlock_all(tx)      *)
(* while lock(tx, ..) has not returned. lm_pc[tx] is "abort_unlock" while  *)
(* that call runs and "aborted" once it has returned; an aborted           *)
(* transaction makes no call of its own any more.                          *)
(***************************************************************************)
AbortStretch(tx, rem) ==
    LET u == UnlockRun(lm_table, tx, rem)
    IN /\ lm_table' = u.table
       /\ lm_rem' = [lm_rem EXCEPT ![tx] = u.rem]
       /\ lm_woken' = lm_woken \cup u.to_wake
       /\ lm_pc' = [lm_pc EXCEPT ![tx] = IF u.rem = <<>> THEN "aborted" ELSE "abort_unlock"]
       /\ UNCHANGED lm_others

\* unlock_all(tx) for a transaction whose lock() call is waiting
AbortWaiting(tx) ==
    /\ lm_pc[tx] = "wait"
    /\ tx \notin lm_woken
    /\ \E order \in KeyOrders(lm_table) : AbortStretch(tx, order)

\* that unlock_all(tx) takes the mutex again after waking (line 158)
AbortResume(tx) ==
    /\ lm_pc[tx] = "abort_unlock"
    /\ AbortStretch(tx, lm_rem[tx])

VictimNext ==
    \/ LMNext
    \/ \E tx \in Txs : AbortWaiting(tx)
    \/ \E tx \in Txs : AbortResume(tx)

\* C31: after unlock_all(tx) has returned, tx is neither a holder nor a
\* waiter of any resource: so it is at the return of an unlock_all that
\* dropped the mutex on its way, and so it stays for a transaction that was
\* aborted while its lock request waited.
C31_UnlockAllRemovesTxEverywhere ==
    /\ [](\A tx \in Txs : lm_pc[tx] = "aborted" =>
             \A res \in DOMAIN lm_table :
                 tx \notin HoldersOf(lm_table, res) \cup WaitersOf(lm_table, res))
    /\ [][\A tx \in Txs : (lm_pc[tx] = "unlock" /\ lm_pc'[tx] = "run") =>
             \A res \in DOMAIN lm_table' :
                 tx \notin HoldersOf(lm_table', res) \cup WaitersOf(lm_table', res)]_vars

(***************************************************************************)
(* detect_deadlock. The wait-for graph is a HashMap from each waiting      *)
(* transaction to the HashSet of the holders it waits for; keys lists the  *)
(* transactions in the order graph.keys() yields them and neighs in the    *)
(* order the HashSets yield them.                                          *)
(***************************************************************************)
\* The holders a waiter gets edges to, with only the first holder kept.
EdgeTargets_FirstHolder(state) == IF state.holders = <<>> THEN {} ELSE {state.holders[1][1]}

\* lines 173-177: the holders of the resource, for one queued request
EdgeTargets(state) == {state.holders[i][1] : i \in 1..Len(state.holders)}

\* lines 169-179: the adjacency map
BuildGraph(tbl) ==
    LET waiting == UNION {WaitersOf(tbl, res) : res \in DOMAIN tbl}
    IN [w \in waiting |->
           UNION {EdgeTargets(tbl[res]) : res \in {r \in DOMAIN tbl : w \in WaitersOf(tbl, r)}}]

\* The elements of set in the order of the sequence ord.
InOrder(set, ord) == SelectSeq(ord, LAMBDA x : x \in set)

\* fn dfs, lines 187-214: [cycle, visited]. on_stack holds the elements of
\* stack.
RECURSIVE dfs(_, _, _, _, _), DfsNeighs(_, _, _, _, _, _)
dfs(u, graph, visited, stack, neighs) ==
    DfsNeighs(graph, IF u \in DOMAIN graph THEN InOrder(graph[u], neighs) ELSE <<>>, 1,
              visited \cup {u}, Append(stack, u), neighs)

DfsNeighs(graph, list, i, visited, stack, neighs) ==
    IF i > Len(list) THEN [cycle |-> None, visited |-> visited]
    ELSE LET v == list[i]
         IN IF v \notin visited
            THEN LET r == dfs(v, graph, visited, stack, neighs)
                 IN IF r.cycle # None THEN r
                    ELSE DfsNeighs(graph, list, i + 1, r.visited, stack, neighs)
            ELSE IF v \in Range(stack)
            THEN LET idx == CHOOSE k \in 1..Len(stack) : stack[k] = v
                 IN [cycle |-> Some(SubSeq(stack, idx, Len(stack))), visited |-> visited]
            ELSE DfsNeighs(graph, list, i + 1, visited, stack, neighs)

\* lines 216-222: the loop over graph.keys()
RECURSIVE DetectFrom(_, _, _, _, _)
DetectFrom(graph, list, i, visited, neighs) ==
    IF i > Len(list) THEN None
    ELSE IF list[i] \in visited THEN DetectFrom(graph, list, i + 1, visited, neighs)
    ELSE LET r == dfs(list[i], graph, visited, <<>>, neighs)
         IN IF r.cycle # None THEN r.cycle
            ELSE DetectFrom(graph, list, i + 1, r.visited, neighs)

\* LockManager::detect_deadlock: None or Some(cycle)
detect_deadlock(tbl, keys, neighs) ==
    LET Detect(graph) == DetectFrom(graph, InOrder(DOMAIN graph, keys), 1, {}, neighs)
    IN Detect(BuildGraph(tbl))

\* The orders a HashMap or HashSet of transactions may be iterated in.
TxOrders == {s \in [1..NumTx -> Txs] : \A i, j \in 1..NumTx : i # j => s[i] # s[j]}

\* The wait-for relation of the claim: w waits for h when w is queued on a
\* resource that h holds.
WaitsFor(tbl) ==
    {e \in Txs \X Txs : \E res \in DOMAIN tbl :
        e[1] \in WaitersOf(tbl, res) /\ e[2] \in HoldersOf(tbl, res)}

\* The transactions reached from `from` along at most n more edges.
RECURSIVE ReachedFrom(_, _, _)
ReachedFrom(edges, from, n) ==
    IF n = 0 THEN from
    ELSE ReachedFrom(edges, from \cup {e[2] : e \in {d \in edges : d[1] \in from}}, n - 1)

HasCycle(edges) ==
    \E t \in Txs : t \in ReachedFrom(edges, {e[2] : e \in {d \in edges : d[1] = t}}, NumTx)

IsCycle(edges, list) ==
    /\ list # <<>>
    /\ \A i \in 1..Len(list) : <<list[i], list[(i % Len(list)) + 1]>> \in edges

\* C27: whatever the iteration orders, detect_deadlock returns Some(list)
\* exactly when the wait-for graph has a cycle, and the list is then a cycle
\* of that graph.
C27_DetectDeadlockFindsCycles ==
    LET Checked(edges, cyclic) ==
            \A keys \in TxOrders, neighs \in TxOrders :
                LET Right(found) ==
                        /\ (found # None) = cyclic
                        /\ found # None => IsCycle(edges, found[1])
                IN Right(detect_deadlock(lm_table, keys, neighs))
    IN Checked(WaitsFor(lm_table), HasCycle(WaitsFor(lm_table)))

\* Two transactions wait for each other while a third waits for one of
\* them, and detect_deadlock reports the two.
C27_Witness ==
    /\ HasCycle(WaitsFor(lm_table))
    /\ \E t \in Txs : t \in DOMAIN BuildGraph(lm_table) /\
          \A keys \in TxOrders, neighs \in TxOrders :
              t \notin Range(detect_deadlock(lm_table, keys, neighs)[1])
    /\ \A keys \in TxOrders, neighs \in TxOrders :
          Len(detect_deadlock(lm_table, keys, neighs)[1]) = 2

(***************************************************************************)
(* LogManager (tx/log_manager.rs). Option<Lsn> is <<>> for None and <<x>>  *)
(* for Some(x). A payload is a sequence of fields: an Update payload is    *)
(* <<page_no, offset>> followed by the image bytes, so the byte offset 12  *)
(* of the source is the field offset 2 here.                               *)
(***************************************************************************)
Begin == "Begin"
Commit == "Commit"
Abort == "Abort"
Update == "Update"

\* `typ as u8`: the discriminants of LogRecordType.
TypCode(typ) ==
    CASE typ = Begin -> 0 [] typ = Commit -> 1 [] typ = Abort -> 2 [] typ = Update -> 3

\* The fields an Update payload has before its images (page_no, offset).
PayloadFields == <<"page_no", "offset">>

LogRecord(lsn, prev_lsn, tx_id, typ, payload) ==
    [header |-> [lsn |-> lsn, prev_lsn |-> prev_lsn, tx_id |-> tx_id, typ |-> typ,
                 payload_len |-> Len(payload)],
     payload |-> payload]

\* LogRecord::serialize: the record as the file holds it.
serialize(rec) ==
    [lsn |-> rec.header.lsn, prev_lsn |-> unwrap_or(rec.header.prev_lsn, 0),
     tx_id |-> rec.header.tx_id, typ |-> TypCode(rec.header.typ),
     payload_len |-> rec.header.payload_len, payload |-> rec.payload]

\* LogManager::new: the counters start afresh whatever the file holds.
LogManager_new == [next_lsn |-> 1, last_lsn |-> <<>>, flushed_lsn |-> 0, buffer |-> <<>>]

\* append_record: [lsn, lg]
append_record(l, tx_id, typ, payload) ==
    LET lsn == l.next_lsn
        prev == IF tx_id \in DOMAIN l.last_lsn THEN Some(l.last_lsn[tx_id]) ELSE None
    IN [lsn |-> lsn,
        lg |-> [l EXCEPT !.last_lsn = PoolInsert(@, tx_id, lsn),
                         !.buffer = Append(@, LogRecord(lsn, prev, tx_id, typ, payload)),
                         !.next_lsn = @ + 1]]

\* flush, line 152, with the record of the target LSN itself left behind.
InFlushRange_Strict(rec, target_lsn) == rec.header.lsn < target_lsn

\* flush, line 152: is the record at the head of the buffer drained?
InFlushRange(rec, target_lsn) == rec.header.lsn <= target_lsn

\* flush, lines 151-157: how many records the loop drains.
RECURSIVE DrainCount(_, _)
DrainCount(buffer, target_lsn) ==
    IF buffer # <<>> /\ InFlushRange(Head(buffer), target_lsn)
    THEN 1 + DrainCount(Tail(buffer), target_lsn)
    ELSE 0

\* flush: the drained records are written and synced. [lg, file]
flush(l, file, target_lsn) ==
    LET k == DrainCount(l.buffer, target_lsn)
    IN [lg |-> [l EXCEPT !.buffer = SubSeq(@, k + 1, Len(@)), !.flushed_lsn = target_lsn],
        file |-> file \o [i \in 1..k |-> serialize(l.buffer[i])]]

(***************************************************************************)
(* RecoveryManager (tx/recovery_manager.rs).                               *)
(***************************************************************************)
\* deserialize_record: the u8 of the file back to a LogRecordType.
TypOf(code) ==
    CASE code = 0 -> Begin [] code = 1 -> Commit [] code = 2 -> Abort [] code = 3 -> Update

\* deserialize_record
deserialize_record(buf) ==
    [header |-> [lsn |-> buf.lsn,
                 prev_lsn |-> IF buf.prev_lsn = 0 THEN None ELSE Some(buf.prev_lsn),
                 tx_id |-> buf.tx_id, typ |-> TypOf(buf.typ), payload_len |-> buf.payload_len],
     payload |-> SubSeq(buf.payload, 1, buf.payload_len)]

\* analysis_pass, the loop from record i on. acc is
\* [dirty_pages, tx_status, tx_last_lsn].
RECURSIVE AnalysisScan(_, _, _)
AnalysisScan(file, i, acc) ==
    IF i > Len(file) THEN acc
    ELSE LET record == deserialize_record(file[i])
             hdr == record.header
             a1 == [acc EXCEPT !.tx_last_lsn = PoolInsert(@, hdr.tx_id, hdr.lsn)]
             a2 == CASE hdr.typ = Begin ->
                           [a1 EXCEPT !.tx_status = PoolInsert(@, hdr.tx_id, None)]
                      [] hdr.typ = Update ->
                           [a1 EXCEPT !.dirty_pages = @ \cup {record.payload[1]}]
                      [] hdr.typ = Commit ->
                           [a1 EXCEPT !.tx_status = PoolInsert(@, hdr.tx_id, Some(TRUE))]
                      [] hdr.typ = Abort ->
                           [a1 EXCEPT !.tx_status = PoolInsert(@, hdr.tx_id, Some(FALSE))]
         IN AnalysisScan(file, i + 1, a2)

analysis_pass(file) ==
    AnalysisScan(file, 1, [dirty_pages |-> {}, tx_status |-> <<>>, tx_last_lsn |-> <<>>])

\* page[offset..offset + src.len()].copy_from_slice(src): panics when the range
\* ends past the page. [panic, page]
copy_from_slice(page, offset, src) ==
    IF offset + Len(src) > Len(page)
    THEN [panic |-> TRUE, page |-> page]
    ELSE [panic |-> FALSE,
          page |-> [i \in 1..Len(page) |->
                      IF i > offset /\ i <= offset + Len(src) THEN src[i - offset] ELSE page[i]]]

\* read_page, copy_from_slice, write_page on the data file (redo_pass lines
\* 127-129, undo_pass lines 163-166). [ok, data]
ApplyImage(data, page_no, offset, image) ==
    LET r == read_page(data, page_no)
    IN IF ~r.ok THEN [ok |-> FALSE, data |-> data]
       ELSE LET c == copy_from_slice(r.data[1], offset, image)
            IN IF c.panic THEN [ok |-> FALSE, data |-> data]
               ELSE [ok |-> TRUE,
                     data |-> write_page(data, page_no, c.page, [i \in 1..Len(c.page) |-> 0])]

\* redo_pass line 121: `after = &payload[12..]`.
RedoImage(payload) == SubSeq(payload, Len(PayloadFields) + 1, Len(payload))

\* undo_pass lines 156-157: `before = &payload[12..12 + half]`.
UndoImage(payload) ==
    LET half == (Len(payload) - Len(PayloadFields)) \div 2
    IN SubSeq(payload, Len(PayloadFields) + 1, Len(PayloadFields) + half)

\* redo_pass, the loop from record i on. [ok, data]
RECURSIVE RedoScan(_, _, _, _)
RedoScan(file, i, dirty_pages, data) ==
    IF i > Len(file) THEN [ok |-> TRUE, data |-> data]
    ELSE LET record == deserialize_record(file[i])
             payload == record.payload
         IN IF record.header.typ = Update /\ payload[1] \in dirty_pages
            THEN LET a == ApplyImage(data, payload[1], payload[2], RedoImage(payload))
                 IN IF ~a.ok THEN a ELSE RedoScan(file, i + 1, dirty_pages, a.data)
            ELSE RedoScan(file, i + 1, dirty_pages, data)

redo_pass(file, dirty_pages, data) == RedoScan(file, 1, dirty_pages, data)

\* fetch_record: the first record of the file that carries the LSN. [ok, record]
fetch_record(file, target_lsn) ==
    LET hits == {i \in 1..Len(file) : deserialize_record(file[i]).header.lsn = target_lsn}
    IN IF hits = {} THEN [ok |-> FALSE, record |-> None]
       ELSE [ok |-> TRUE,
             record |-> deserialize_record(file[CHOOSE i \in hits : \A j \in hits : i <= j])]

\* undo_pass lines 148-172: the walk down the LSN chain of one transaction.
\* [ok, data]
RECURSIVE UndoChain(_, _, _)
UndoChain(file, lsn, data) ==
    IF ~(lsn > 0) THEN [ok |-> TRUE, data |-> data]
    ELSE LET f == fetch_record(file, lsn)
         IN IF ~f.ok THEN [ok |-> FALSE, data |-> data]
            ELSE LET payload == f.record.payload
                     a == IF f.record.header.typ = Update
                          THEN ApplyImage(data, payload[1], payload[2], UndoImage(payload))
                          ELSE [ok |-> TRUE, data |-> data]
                 IN IF ~a.ok THEN a
                    ELSE UndoChain(file, unwrap_or(f.record.header.prev_lsn, 0), a.data)

\* log_abort on a LogManager made for the occasion (undo_pass lines 174-175):
\* the file with the Abort record appended.
AppendAbort(file, tx) ==
    LET a == append_record(LogManager_new, tx, Abort, <<>>)
    IN flush(a.lg, file, a.lsn).file

\* undo_pass: the transactions of tx_status visited in the order `order` from
\* its i-th on. [ok, data, file]
RECURSIVE UndoScan(_, _, _, _, _)
UndoScan(order, i, an, file, data) ==
    IF i > Len(order) THEN [ok |-> TRUE, data |-> data, file |-> file]
    ELSE LET tx == order[i]
         IN IF an.tx_status[tx] = None
            THEN LET u == UndoChain(file, an.tx_last_lsn[tx], data)
                 IN IF ~u.ok THEN [ok |-> FALSE, data |-> u.data, file |-> file]
                    ELSE UndoScan(order, i + 1, an, AppendAbort(file, tx), u.data)
            ELSE UndoScan(order, i + 1, an, file, data)

undo_pass(order, an, file, data) == UndoScan(order, 1, an, file, data)

\* recover: analysis, redo, undo; `order` is the order in which the HashMap
\* tx_status yields its keys. [ok, data, file]
recover(file, data, order) ==
    LET an == analysis_pass(file)
        r == redo_pass(file, an.dirty_pages, data)
    IN IF ~r.ok THEN [ok |-> FALSE, data |-> r.data, file |-> file]
       ELSE undo_pass(order, an, file, r.data)

(***************************************************************************)
(* The log driven by NumLogTx transactions, each running once: log_begin,  *)
(* at most MaxUpdates times log_update, then log_commit or log_abort. The  *)
(* data file has one page of PageCells cells, all zero at first. An update *)
(* changes one cell in memory and logs <<page_no, offset, before, after>>; *)
(* the value it writes is the LSN of its record, so no two updates write   *)
(* the same value. A transaction holds an exclusive lock on what it        *)
(* updated until its commit or abort has returned (net/server.rs), hence   *)
(* it does not update a cell another unfinished transaction has updated.   *)
(***************************************************************************)
NumLogTx == 2
MaxUpdates == 1
PageCells == 3

LogTxs == 1..NumLogTx
Offsets == 0..(PageCells - 1)
ZeroPage == [i \in 1..PageCells |-> 0]

\* The Update records appended for tx.
UpdatesOf(tx) == {rec \in wal_hist[tx] : rec.header.typ = Update}

\* The transactions that still hold their locks.
Unfinished == {t \in LogTxs : wal_pc[t] \in {"active", "commit", "abort"}}

WalInit ==
    /\ lg = LogManager_new
    /\ wal = <<>>
    /\ wal_pc = [t \in LogTxs |-> "idle"]
    /\ wal_ret = [t \in LogTxs |-> 0]
    /\ wal_hist = [t \in LogTxs |-> {}]
    /\ db = <<ZeroPage>>
    /\ db_mem = ZeroPage
    /\ crashed = FALSE
    /\ rec_runs = 0
    /\ rec_failed = FALSE
    /\ rec_snap = <<>>

\* The append of a record for tx, common to the log_* calls.
Appended(tx, typ, payload, pc) ==
    LET a == append_record(lg, tx, typ, payload)
    IN /\ lg' = a.lg
       /\ wal_ret' = [wal_ret EXCEPT ![tx] = a.lsn]
       /\ wal_hist' = [wal_hist EXCEPT ![tx] = @ \cup {a.lg.buffer[Len(a.lg.buffer)]}]
       /\ wal_pc' = [wal_pc EXCEPT ![tx] = pc]

\* log_begin(tx)
LogBegin(tx) ==
    /\ ~crashed
    /\ wal_pc[tx] = "idle"
    /\ Appended(tx, Begin, <<>>, "active")
    /\ UNCHANGED <<wal, db, db_mem, crashed, rec_runs, rec_failed, rec_snap, wal_others>>

\* log_update(tx, payload) for a store to the cell at `offset` of page_no.
LogUpdate(tx, page_no, offset) ==
    /\ ~crashed
    /\ wal_pc[tx] = "active"
    /\ Cardinality(UpdatesOf(tx)) < MaxUpdates
    /\ \A t \in Unfinished \ {tx} : \A rec \in UpdatesOf(t) : rec.payload[2] # offset
    /\ Appended(tx, Update, <<page_no, offset, db_mem[offset + 1], lg.next_lsn>>, "active")
    /\ db_mem' = [db_mem EXCEPT ![offset + 1] = lg.next_lsn]
    /\ UNCHANGED <<wal, db, crashed, rec_runs, rec_failed, rec_snap, wal_others>>

\* log_commit(tx), line 111: the Commit record is appended.
LogCommit(tx) ==
    /\ ~crashed
    /\ wal_pc[tx] = "active"
    /\ Appended(tx, Commit, <<>>, "commit")
    /\ UNCHANGED <<wal, db, db_mem, crashed, rec_runs, rec_failed, rec_snap, wal_others>>

\* log_abort(tx), line 118: the Abort record is appended.
LogAbort(tx) ==
    /\ ~crashed
    /\ wal_pc[tx] = "active"
    /\ Appended(tx, Abort, <<>>, "abort")
    /\ UNCHANGED <<wal, db, db_mem, crashed, rec_runs, rec_failed, rec_snap, wal_others>>

\* The flush up to the LSN the append returned, and the return of the call.
FlushReturn(tx, pc) ==
    LET f == flush(lg, wal, wal_ret[tx])
    IN /\ lg' = f.lg
       /\ wal' = f.file
       /\ wal_pc' = [wal_pc EXCEPT ![tx] = pc]
       /\ UNCHANGED <<wal_ret, wal_hist, db, db_mem, crashed, rec_runs, rec_failed, rec_snap,
                      wal_others>>

\* log_commit(tx), lines 112-113.
LogCommitReturn(tx) ==
    /\ ~crashed
    /\ wal_pc[tx] = "commit"
    /\ FlushReturn(tx, "committed")

\* log_abort(tx), lines 119-120.
LogAbortReturn(tx) ==
    /\ ~crashed
    /\ wal_pc[tx] = "abort"
    /\ FlushReturn(tx, "aborted")

\* The page in memory is written to the data file; the log records of the
\* updates it carries are on stable storage by then (write-ahead rule).
PageFlush(page_no) ==
    /\ ~crashed
    /\ db_mem # db[page_no + 1]
    /\ \A i \in 1..Len(lg.buffer) : lg.buffer[i].header.typ # Update
    /\ db' = write_page(db, page_no, db_mem, ZeroPage)
    /\ UNCHANGED <<lg, wal, wal_pc, wal_ret, wal_hist, db_mem, crashed, rec_runs, rec_failed,
                   rec_snap, wal_others>>

\* The process dies: what was in memory is lost; the restart makes a new
\* LogManager over the same file.
Crash(page_no) ==
    /\ ~crashed
    /\ crashed' = TRUE
    /\ lg' = LogManager_new
    /\ db_mem' = db[page_no + 1]
    /\ UNCHANGED <<wal, wal_pc, wal_ret, wal_hist, db, rec_runs, rec_failed, rec_snap, wal_others>>

\* RecoveryManager::recover after the restart, run at most twice.
Recover ==
    /\ crashed
    /\ ~rec_failed
    /\ rec_runs < 2
    /\ \E order \in KeyOrders(analysis_pass(wal).tx_status) :
       LET r == recover(wal, db, order)
       IN /\ wal' = r.file
          /\ db' = r.data
          /\ rec_failed' = ~r.ok
          /\ rec_snap' = IF rec_runs = 0 THEN r.data ELSE rec_snap
    /\ rec_runs' = rec_runs + 1
    /\ UNCHANGED <<lg, wal_pc, wal_ret, wal_hist, db_mem, crashed, wal_others>>

\* The log manager alone: every update goes to the first cell.
WalNext ==
    \/ \E tx \in LogTxs : LogBegin(tx)
    \/ \E tx \in LogTxs : LogUpdate(tx, 0, 0)
    \/ \E tx \in LogTxs : LogCommit(tx)
    \/ \E tx \in LogTxs : LogCommitReturn(tx)
    \/ \E tx \in LogTxs : LogAbort(tx)
    \/ \E tx \in LogTxs : LogAbortReturn(tx)

\* The log, the data page, the crash and the recovery.
RecNext ==
    \/ \E tx \in LogTxs : LogBegin(tx)
    \/ \E tx \in LogTxs, offset \in Offsets : LogUpdate(tx, 0, offset)
    \/ \E tx \in LogTxs : LogCommit(tx)
    \/ \E tx \in LogTxs : LogCommitReturn(tx)
    \/ \E tx \in LogTxs : LogAbort(tx)
    \/ \E tx \in LogTxs : LogAbortReturn(tx)
    \/ PageFlush(0)
    \/ Crash(0)
    \/ Recover

(***************************************************************************)
(* A crash in the middle of flush: of the records flush drains, some are   *)
(* written whole and the next one in part. The record read of the recovery *)
(* (analysis_pass lines 77-84, next_record) reads the four bytes of the    *)
(* size, then the body of that size, with read_exact.                      *)
(***************************************************************************)
SIZE_FIELD == 4
RECORD_HEADER_SIZE == 8 + 8 + 8 + 1 + 4

\* The bytes of a payload: page_no (8) and offset (4), then one byte per
\* image cell.
PayloadBytes(payload) == IF payload = <<>> THEN 0 ELSE 8 + 4 + (Len(payload) - Len(PayloadFields))

\* LogRecord::serialize: the length of the bytes written for a record.
SerializedLen(buf) == SIZE_FIELD + RECORD_HEADER_SIZE + PayloadBytes(buf.payload)

\* The record read where the complete records end. "eof": read_exact of
\* the size fails and the loop ends; "err": the size is read and
\* read_exact of the body fails, which `?` returns.
ReadAtTail(tail) ==
    IF tail = None THEN "eof"
    ELSE IF tail[1].present < SIZE_FIELD THEN "eof"
    ELSE IF tail[1].present - SIZE_FIELD < SerializedLen(tail[1].record) - SIZE_FIELD THEN "err"
    ELSE "record"

\* recover over a file that ends with the partial record `tail`.
\* [ok, data, file]
recover_torn(file, tail, data, order) ==
    IF ReadAtTail(tail) = "err" THEN [ok |-> FALSE, data |-> data, file |-> file]
    ELSE recover(file, data, order)

\* Where the write of a record of len bytes may stop.
TornPoints(len) == {1, SIZE_FIELD - 1, SIZE_FIELD, SIZE_FIELD + 1, len - 1}

TwInit ==
    /\ tw = None
    /\ tw_last = None

\* The process dies inside flush (log_commit or log_abort of tx): `whole` of
\* the drained records are in the file, the next one up to byte `present`.
CrashTorn(tx) ==
    /\ ~crashed
    /\ wal_pc[tx] \in {"commit", "abort"}
    /\ \E whole \in 0..(DrainCount(lg.buffer, wal_ret[tx]) - 1) :
       \E present \in TornPoints(SerializedLen(serialize(lg.buffer[whole + 1]))) :
          /\ wal' = wal \o [i \in 1..whole |-> serialize(lg.buffer[i])]
          /\ tw' = Some([present |-> present, record |-> serialize(lg.buffer[whole + 1])])
    /\ crashed' = TRUE
    /\ lg' = LogManager_new
    /\ db_mem' = db[1]
    /\ UNCHANGED <<tw_last, wal_pc, wal_ret, wal_hist, db, rec_runs, rec_failed, rec_snap,
                   tw_others>>

\* RecoveryManager::recover after that crash, run once.
RecoverTorn ==
    /\ crashed
    /\ rec_runs = 0
    /\ \E order \in KeyOrders(analysis_pass(wal).tx_status) :
       LET r == recover_torn(wal, tw, db, order)
       IN /\ wal' = r.file
          /\ db' = r.data
          /\ rec_failed' = ~r.ok
          /\ rec_snap' = r.data
          /\ tw_last' = Some([ok |-> r.ok, data |-> r.data, whole |-> recover(wal, db, order)])
    /\ rec_runs' = rec_runs + 1
    /\ UNCHANGED <<tw, lg, wal_pc, wal_ret, wal_hist, db_mem, crashed, tw_others>>

\* The log with every update on the first cell, the crash inside a flush
\* and the recovery.
TornNext ==
    \/ \E tx \in LogTxs : LogBegin(tx)
    \/ \E tx \in LogTxs : LogUpdate(tx, 0, 0)
    \/ \E tx \in LogTxs : LogCommit(tx)
    \/ \E tx \in LogTxs : LogCommitReturn(tx)
    \/ \E tx \in LogTxs : LogAbort(tx)
    \/ \E tx \in LogTxs : LogAbortReturn(tx)
    \/ PageFlush(0)
    \/ \E tx \in LogTxs : CrashTorn(tx)
    \/ RecoverTorn

\* C25: a recovery over a WAL that ends with a partial record, cut inside
\* the size field or inside the body, returns Ok and leaves the data file as
\* the recovery over the complete records alone leaves it.
C25_PartialTailIsIgnored ==
    tw_last # None /\ tw_last[1].whole.ok =>
        tw_last[1].ok /\ tw_last[1].data = tw_last[1].whole.data

WalUpdates == {i \in 1..Len(wal) : wal[i].typ = TypCode(Update)}

HasCommit(tx) == \E i \in 1..Len(wal) : wal[i].tx_id = tx /\ wal[i].typ = TypCode(Commit)

\* The after-image of an Update payload: the second half of its images.
AfterImage(payload) ==
    LET half == (Len(payload) - Len(PayloadFields)) \div 2
    IN SubSeq(payload, Len(PayloadFields) + half + 1, Len(payload))

\* The data file shows the after-image of the Update record wal[i].
ShowsAfter(i) ==
    LET payload == wal[i].payload
        image == AfterImage(payload)
    IN SubSeq(db[payload[1] + 1], payload[2] + 1, payload[2] + Len(image)) = image

\* A later Update of a committed transaction wrote where wal[i] did.
Overwritten(i) ==
    \E j \in WalUpdates :
        /\ j > i
        /\ HasCommit(wal[j].tx_id)
        /\ wal[j].payload[1] = wal[i].payload[1]
        /\ wal[j].payload[2] = wal[i].payload[2]

\* C2: after a crash and a completed recover, the data file shows the
\* after-image of every Update of a transaction that has a Commit record in
\* the WAL (unless a later committed Update replaced it) and of no Update of a
\* transaction that has none.
C2_RecoveredState ==
    (crashed /\ rec_runs > 0 /\ ~rec_failed) =>
        \A i \in WalUpdates :
            /\ (HasCommit(wal[i].tx_id) /\ ~Overwritten(i)) => ShowsAfter(i)
            /\ ~HasCommit(wal[i].tx_id) => ~ShowsAfter(i)

\* C4: a second run of recover, reading the WAL as the first run left it,
\* leaves the data file as the first run left it.
C4_RecoveryIdempotent ==
    (rec_runs > 1 /\ ~rec_failed) => db = rec_snap

\* The records of the WAL file before the i-th that are of its transaction.
EarlierOfTx(file, i) == {j \in 1..(i - 1) : file[j].tx_id = file[i].tx_id}

\* C29: in the WAL file the records of one transaction have strictly
\* increasing LSNs and each carries as prev_lsn the LSN of the latest earlier
\* record of its transaction, 0 when it is the first; the Abort records that
\* the undo pass of recovery appends included.
C29_TxRecordsAreChained ==
    \A i \in 1..Len(wal) :
        IF EarlierOfTx(wal, i) = {} THEN wal[i].prev_lsn = 0
        ELSE LET j == CHOOSE k \in EarlierOfTx(wal, i) : \A m \in EarlierOfTx(wal, i) : m <= k
             IN /\ wal[i].prev_lsn = wal[j].lsn
                /\ wal[i].lsn > wal[j].lsn

\* C33: the LSNs of the records of the WAL file are strictly increasing in
\* file order, whichever LogManager appended them (the one the undo pass of
\* recovery makes included), and fetch_record of the LSN of a record of the
\* file returns that record.
C33_LsnsIncreaseInFileOrder ==
    /\ \A i, j \in 1..Len(wal) : i < j => wal[i].lsn < wal[j].lsn
    /\ \A i \in 1..Len(wal) :
          /\ fetch_record(wal, wal[i].lsn).ok
          /\ fetch_record(wal, wal[i].lsn).record = deserialize_record(wal[i])

(***************************************************************************)
(* Machine integers. A usize value is held as itself when it is small and  *)
(* as v - 2^64 (a negative number) when a subtraction wrapped below zero,  *)
(* so that sums and differences stay exact modulo 2^64.                    *)
(***************************************************************************)
\* a >= b on usize
UGe(a, b) == IF (a < 0) = (b < 0) THEN a >= b ELSE a < 0

\* a - b on usize: overflow panics in a debug build and wraps in a release
\* build. [panic, val]
USub(a, b, build) ==
    IF ~UGe(a, b) /\ build = "debug"
    THEN [panic |-> TRUE, val |-> 0]
    ELSE [panic |-> FALSE, val |-> a - b]

\* write_u16 / write_u64 (little endian): the bytes of v.
RECURSIVE LEBytes(_, _)
LEBytes(v, width) ==
    IF width = 0 THEN <<>> ELSE <<v % 256>> \o LEBytes(v \div 256, width - 1)

\* read_u16 / read_u64 (little endian)
RECURSIVE FromLE(_)
FromLE(bytes) == IF bytes = <<>> THEN 0 ELSE bytes[1] + 256 * FromLE(Tail(bytes))

\* The bytes [start, end) of data replaced by src (end - start = Len(src)).
PutBytes(data, start, src) ==
    [i \in 1..Len(data) |->
        IF i > start /\ i <= start + Len(src) THEN src[i - start] ELSE data[i]]

\* &data[start..end]: is the range inside the buffer?
SliceOk(data, start, end) == start >= 0 /\ end >= 0 /\ start <= end /\ end <= Len(data)

(***************************************************************************)
(* Slotted page (storage/record.rs), byte for byte: page_id at 0..8,       *)
(* slot_count at 8..10, free_space_off at 10..12, then the slot directory. *)
(***************************************************************************)
HEADER_SIZE == 8 + 2 + 2
SLOT_ENTRY_SIZE == 2 + 2

\* Page::new
Page_new(page_id, page_size) ==
    PutBytes(PutBytes([i \in 1..page_size |-> 0], 0, LEBytes(page_id, 8)),
             10, LEBytes(page_size % 65536, 2))

page_id(data) == FromLE(SubSeq(data, 1, 8))
slot_count(data) == FromLE(SubSeq(data, 9, 10))
free_space_off(data) == FromLE(SubSeq(data, 11, 12))

payload_start(data) == HEADER_SIZE + slot_count(data) * SLOT_ENTRY_SIZE

\* A free_space that forgets the slot directory.
free_space_NoDirectory(data, build) == USub(free_space_off(data), HEADER_SIZE, build)

\* Page::free_space: [panic, val]
free_space(data, build) == USub(free_space_off(data), payload_start(data), build)

\* Page::insert_tuple: [ok, panic, data, rid]
insert_tuple(data, tuple, build) ==
    LET failed(panic) == [ok |-> FALSE, panic |-> panic, data |-> data, rid |-> <<>>]
        tuple_len == Len(tuple)
        needed == tuple_len + SLOT_ENTRY_SIZE
        fs == free_space(data, build)
    IN IF fs.panic THEN failed(TRUE)
       ELSE IF ~UGe(fs.val, needed) THEN failed(FALSE)
       ELSE
         LET free_off == free_space_off(data)
             nf == USub(free_off, tuple_len, build)
         IN IF nf.panic \/ ~SliceOk(data, nf.val, free_off) THEN failed(TRUE)
            ELSE
              LET start == nf.val
                  slot_no == slot_count(data)
                  entry_off == HEADER_SIZE + slot_no * SLOT_ENTRY_SIZE
                  d1 == PutBytes(data, start, tuple)
              IN IF ~SliceOk(d1, entry_off, entry_off + 4) THEN failed(TRUE)
                 ELSE
                   LET d2 == PutBytes(d1, entry_off, LEBytes(start % 65536, 2))
                       d3 == PutBytes(d2, entry_off + 2, LEBytes(tuple_len % 65536, 2))
                       d4 == PutBytes(d3, 8, LEBytes((slot_no + 1) % 65536, 2))
                       d5 == PutBytes(d4, 10, LEBytes(start % 65536, 2))
                   IN [ok |-> TRUE, panic |-> FALSE, data |-> d5,
                       rid |-> <<page_id(d5), slot_no>>]

\* Page::get_tuple: [some, panic, tuple]
get_tuple(data, slot_no) ==
    IF slot_no >= slot_count(data) THEN [some |-> FALSE, panic |-> FALSE, tuple |-> <<>>]
    ELSE LET entry_off == HEADER_SIZE + slot_no * SLOT_ENTRY_SIZE
         IN IF ~SliceOk(data, entry_off, entry_off + 4)
            THEN [some |-> FALSE, panic |-> TRUE, tuple |-> <<>>]
            ELSE LET off == FromLE(SubSeq(data, entry_off + 1, entry_off + 2))
                     len == FromLE(SubSeq(data, entry_off + 3, entry_off + 4))
                 IN IF ~SliceOk(data, off, off + len)
                    THEN [some |-> FALSE, panic |-> TRUE, tuple |-> <<>>]
                    ELSE [some |-> TRUE, panic |-> FALSE,
                          tuple |-> SubSeq(data, off + 1, off + len)]

\* Page::delete_tuple: [ok, panic, data]
delete_tuple(data, slot_no) ==
    IF slot_no >= slot_count(data) THEN [ok |-> FALSE, panic |-> FALSE, data |-> data]
    ELSE LET entry_off == HEADER_SIZE + slot_no * SLOT_ENTRY_SIZE
         IN IF ~SliceOk(data, entry_off + 2, entry_off + 4)
            THEN [ok |-> FALSE, panic |-> TRUE, data |-> data]
            ELSE [ok |-> TRUE, panic |-> FALSE,
                  data |-> PutBytes(data, entry_off + 2, LEBytes(0, 2))]

(***************************************************************************)
(* FreeList (storage/free_list.rs): [free_map, pages].                     *)
(***************************************************************************)
FreeList_new == [free_map |-> <<>>, pages |-> <<>>]

\* FreeList::register
register(fl, page_no, free_bytes) ==
    [free_map |-> PoolInsert(fl.free_map, page_no, free_bytes),
     pages |-> IF page_no \in DOMAIN fl.free_map THEN fl.pages ELSE Append(fl.pages, page_no)]

\* FreeList::choose_page: Option<page_no>, first fit in the order of `pages`.
choose_page(fl, min_bytes) ==
    LET fits == {i \in 1..Len(fl.pages) :
                    /\ fl.pages[i] \in DOMAIN fl.free_map
                    /\ UGe(fl.free_map[fl.pages[i]], min_bytes)}
    IN IF fits = {} THEN None
       ELSE Some(fl.pages[CHOOSE i \in fits : \A j \in fits : i <= j])

(***************************************************************************)
(* Storage (storage/storage.rs). The catalog maps each table to its        *)
(* TableInfo (the records list; the rows modelled have one Int column) and *)
(* each indexed table to the root pages of its indexes.                    *)
(***************************************************************************)
Catalog_new == [tables |-> <<>>, indexes |-> <<>>]

Storage_new(page_size, pool_size, zero) ==
    [buffer_pool |-> BufferPool_new(<<>>, pool_size, zero),
     free_list |-> FreeList_new,
     page_size |-> page_size,
     catalog |-> Catalog_new]

\* Storage::insert, lines 139-147: the page the tuple goes to. The header that
\* RecordPage::new builds is used for its free space only; the page on file is
\* the zero-filled one allocate_page wrote. [page_no, st]
InsertTarget(s, data, build) ==
    LET needed == Len(data) + SLOT_ENTRY_SIZE
        c == choose_page(s.free_list, needed)
    IN IF c # None THEN [page_no |-> c[1], st |-> s]
       ELSE LET a == allocate_page(s.buffer_pool.pagefile, s.buffer_pool.zero)
                page == Page_new(a.page_no, s.page_size)
            IN [page_no |-> a.page_no,
                st |-> [s EXCEPT !.buffer_pool.pagefile = a.file,
                                 !.free_list = register(@, a.page_no,
                                                        free_space(page, build).val)]]

\* Storage::insert: [ok, panic, st, rid]
Storage_insert(s, data, build) ==
    LET t == InsertTarget(s, data, build)
        page_no == t.page_no
        f == fetch_page(t.st.buffer_pool, page_no)
        s1 == [t.st EXCEPT !.buffer_pool = f.bp]
    IN IF ~f.ok THEN [ok |-> FALSE, panic |-> f.panic, st |-> s1, rid |-> <<>>]
       ELSE
         LET it == insert_tuple(f.bp.pool[page_no].data, data, build)
             fs == free_space(it.data, build)
         IN IF ~it.ok THEN [ok |-> FALSE, panic |-> it.panic, st |-> s1, rid |-> <<>>]
            ELSE IF fs.panic THEN [ok |-> FALSE, panic |-> TRUE, st |-> s1, rid |-> <<>>]
            ELSE [ok |-> TRUE, panic |-> FALSE, rid |-> it.rid,
                  st |-> [s1 EXCEPT
                            !.buffer_pool = unpin_page(SetFrameData(f.bp, page_no, it.data),
                                                       page_no, TRUE),
                            !.free_list = register(@, page_no, fs.val)]]

\* Storage::fetch: [ok, panic, st, data]
Storage_fetch(s, rid) ==
    LET page_no == rid[1]
        slot_no == rid[2]
        f == fetch_page(s.buffer_pool, page_no)
        s1 == [s EXCEPT !.buffer_pool = f.bp]
    IN IF ~f.ok THEN [ok |-> FALSE, panic |-> f.panic, st |-> s1, data |-> <<>>]
       ELSE LET g == get_tuple(f.bp.pool[page_no].data, slot_no)
            IN IF ~g.some THEN [ok |-> FALSE, panic |-> g.panic, st |-> s1, data |-> <<>>]
               ELSE [ok |-> TRUE, panic |-> FALSE, data |-> g.tuple,
                     st |-> [s1 EXCEPT !.buffer_pool = unpin_page(f.bp, page_no, FALSE)]]

\* Storage::flush
Storage_flush(s) == [s EXCEPT !.buffer_pool = flush_all(@)]

(***************************************************************************)
(* A fresh Storage driven through insert, fetch and flush: pages of        *)
(* RecPageSize bytes, a pool of BPCapacity frames, at most MaxInserts      *)
(* inserts of payloads of 0, 1 or 2 bytes (each fits in one page).         *)
(***************************************************************************)
RecPageSize == 20
MaxInserts == 3

Payloads == {<<>>, <<7>>, <<7, 8>>}

\* The RIDs asked of fetch.
AskedRids == {<<page_no, slot_no>> : page_no \in 0..1, slot_no \in 0..1}

\* No frame is pinned MaxPin times yet (a fetch that fails leaves its pin).
PinsBelowMax(b) == \A p \in Resident(b) : b.pool[p].pin_count < MaxPin

StInit ==
    /\ st = Storage_new(RecPageSize, BPCapacity, [i \in 1..RecPageSize |-> 0])
    /\ st_build \in {"debug", "release"}
    /\ st_log = <<>>

\* insert(data)
StInsert(data) ==
    /\ Len(st_log) < MaxInserts
    /\ LET r == Storage_insert(st, data, st_build)
       IN /\ st' = r.st
          /\ st_log' = Append(st_log, [data |-> data, ok |-> r.ok, rid |-> r.rid])
    /\ UNCHANGED <<st_build, st_others>>

\* fetch(rid)
StFetch(rid) ==
    /\ PinsBelowMax(st.buffer_pool)
    /\ st' = Storage_fetch(st, rid).st
    /\ UNCHANGED <<st_build, st_log, st_others>>

\* flush()
StFlush ==
    /\ st' = Storage_flush(st)
    /\ UNCHANGED <<st_build, st_log, st_others>>

StNext ==
    \/ \E data \in Payloads : StInsert(data)
    \/ \E rid \in AskedRids : StFetch(rid)
    \/ StFlush

(***************************************************************************)
(* Claims about the Storage facade, checked under SpecSt.                  *)
(***************************************************************************)
\* C10: every insert on a fresh Storage succeeds and returns a RID that no
\* earlier insert returned, whose page holds the tuple, and fetch of that RID
\* returns exactly the inserted bytes.
C10_InsertThenFetch ==
    \A i \in 1..Len(st_log) :
        /\ st_log[i].ok
        /\ \A j \in 1..(i - 1) : st_log[j].rid # st_log[i].rid
        /\ LET f == Storage_fetch(st, st_log[i].rid)
           IN f.ok /\ f.data = st_log[i].data

\* The Update records the log holds, in its buffer and in its file.
UpdatesLogged(l, file) ==
    Len(SelectSeq(l.buffer, LAMBDA record : record.header.typ = Update))
        + Len(SelectSeq(file, LAMBDA b : deserialize_record(b).header.typ = Update))

\* C15: a step of Storage that changes the content of a data page (an
\* insert that stores a tuple) appends an Update record to the write-ahead
\* log.
C15_PageChangesAreLogged ==
    [][(\E page_no \in 0..(num_pages(st'.buffer_pool.pagefile) - 1) :
            Visible(st'.buffer_pool, page_no) #
                IF page_no < num_pages(st.buffer_pool.pagefile)
                THEN Visible(st.buffer_pool, page_no) ELSE st.buffer_pool.zero)
        => UpdatesLogged(lg', wal') > UpdatesLogged(lg, wal)]_vars

(***************************************************************************)
(* B+Tree node pages (index/node_serializer.rs). A node page is held field *)
(* by field: node_type, key_count, parent, then one cell per key, per      *)
(* child pointer, per RID component and for next_leaf, zero-filled up to   *)
(* the page size (the page sizes used hold every node written).            *)
(***************************************************************************)
Internal == 0
Leaf == 1

\* The fields of NodeHeader; NodeHeader::SIZE is their number here.
HeaderFields == <<"node_type", "key_count", "parent">>

NodeHeader(node_type, key_count, parent) ==
    [node_type |-> node_type, key_count |-> key_count, parent |-> parent]

\* vec![0u8; page_size] with the fields written from its start.
PadTo(cells, page_size) ==
    [i \in 1..page_size |-> IF i <= Len(cells) THEN cells[i] ELSE 0]

\* NodeHeader::serialize
NodeHeader_serialize(header) == <<header.node_type, header.key_count, header.parent>>

\* NodeHeader::deserialize: Err on a node type that is neither. [ok, header]
NodeHeader_deserialize(buf) ==
    IF buf[1] \in {Internal, Leaf}
    THEN [ok |-> TRUE, header |-> NodeHeader(buf[1], buf[2], buf[3])]
    ELSE [ok |-> FALSE, header |-> NodeHeader(buf[1], 0, 0)]

\* InternalNodeSerializer::serialize: every key given, then every child given.
Internal_serialize(header, keys, children, page_size) ==
    PadTo(NodeHeader_serialize(header) \o keys \o children, page_size)

\* InternalNodeSerializer::deserialize: key_count keys, then key_count + 1
\* children from where those keys end. [ok, panic, header, keys, children]
Internal_deserialize(buf) ==
    LET h == NodeHeader_deserialize(buf)
        n == h.header.key_count
        base == Len(HeaderFields)
        failed(panic) == [ok |-> FALSE, panic |-> panic, header |-> h.header,
                          keys |-> <<>>, children |-> <<>>]
    IN IF ~h.ok THEN failed(FALSE)
       ELSE IF h.header.node_type # Internal \/ base + n + n + 1 > Len(buf) THEN failed(TRUE)
       ELSE [ok |-> TRUE, panic |-> FALSE, header |-> h.header,
             keys |-> SubSeq(buf, base + 1, base + n),
             children |-> SubSeq(buf, base + n + 1, base + n + n + 1)]

\* LeafNodeSerializer::serialize
Leaf_serialize(header, keys, rids, next_leaf, page_size) ==
    PadTo(NodeHeader_serialize(header) \o keys
            \o [i \in 1..(2 * Len(rids)) |-> rids[(i + 1) \div 2][2 - (i % 2)]]
            \o <<next_leaf>>,
          page_size)

\* LeafNodeSerializer::deserialize: [ok, panic, header, keys, rids, next_leaf]
Leaf_deserialize(buf) ==
    LET h == NodeHeader_deserialize(buf)
        n == h.header.key_count
        base == Len(HeaderFields)
        failed(panic) == [ok |-> FALSE, panic |-> panic, header |-> h.header,
                          keys |-> <<>>, rids |-> <<>>, next_leaf |-> 0]
    IN IF ~h.ok THEN failed(FALSE)
       ELSE IF h.header.node_type # Leaf \/ base + 3 * n + 1 > Len(buf) THEN failed(TRUE)
       ELSE [ok |-> TRUE, panic |-> FALSE, header |-> h.header,
             keys |-> SubSeq(buf, base + 1, base + n),
             rids |-> [i \in 1..n |-> <<buf[base + n + 2 * i - 1], buf[base + n + 2 * i]>>],
             next_leaf |-> buf[base + 3 * n + 1]]

\* The free space NodeModifier registers for a node page: the page size less
\* the length of the serialized buffer, as create_index computes it.
compute_free_space(buf, page_size) == Max(page_size - Len(buf), 0)

\* slice::binary_search on ascending keys: Ok(i) when keys[i] is the key, else
\* Err(i) with i the insertion point. [found, idx] (idx counts from 0)
binary_search(keys, key) ==
    IF \E i \in 1..Len(keys) : keys[i] = key
    THEN [found |-> TRUE, idx |-> (CHOOSE i \in 1..Len(keys) : keys[i] = key) - 1]
    ELSE [found |-> FALSE, idx |-> Cardinality({i \in 1..Len(keys) : ~UGe(keys[i], key)})]

\* Vec::split_off(at): [left, right]
split_off(v, at) == [left |-> SubSeq(v, 1, at), right |-> SubSeq(v, at + 1, Len(v))]

(***************************************************************************)
(* BPlusTreeSearch (index/bplustree_search.rs). The calls below return a   *)
(* record with ok (the call returned Ok), panic, hang (the call loops for  *)
(* ever) and st, the Storage as the call leaves it. An Err or a panic      *)
(* while a frame is held leaves that frame pinned.                         *)
(***************************************************************************)
\* search_path, the loop at page `current`. A walk longer than the file has
\* pages is on a cycle of pointers and never ends. [ok, panic, hang, st, path]
RECURSIVE SearchLoop(_, _, _, _)
SearchLoop(s, current, key, path) ==
    LET path1 == Append(path, current)
        stop(ok, panic, hang, s1) ==
            [ok |-> ok, panic |-> panic, hang |-> hang, st |-> s1, path |-> path1]
        Unpinned(s1) == [s1 EXCEPT !.buffer_pool = unpin_page(@, current, FALSE)]
        Descend(s1, d) ==
            LET b == binary_search(d.keys, key)
                idx == IF b.found THEN b.idx + 1 ELSE b.idx
            IN IF ~d.ok THEN stop(FALSE, d.panic, FALSE, s1)
               ELSE SearchLoop(Unpinned(s1), d.children[idx + 1], key, path1)
        Visit(s1, buf) ==
            LET h == NodeHeader_deserialize(buf)
            IN IF ~h.ok THEN stop(FALSE, FALSE, FALSE, s1)
               ELSE IF h.header.node_type = Leaf THEN stop(TRUE, FALSE, FALSE, Unpinned(s1))
               ELSE Descend(s1, Internal_deserialize(buf))
        Fetched(f) ==
            IF ~f.ok THEN stop(FALSE, f.panic, FALSE, [s EXCEPT !.buffer_pool = f.bp])
            ELSE Visit([s EXCEPT !.buffer_pool = f.bp], f.bp.pool[current].data)
    IN IF Len(path1) > num_pages(s.buffer_pool.pagefile) THEN stop(FALSE, FALSE, TRUE, s)
       ELSE Fetched(fetch_page(s.buffer_pool, current))

search_path(s, root_page, key) == SearchLoop(s, root_page, key, <<>>)

(***************************************************************************)
(* NodeModifier (index/node_modifier.rs). Its `storage.pagefile` is the    *)
(* page file of the buffer pool, the only one a Storage has.               *)
(***************************************************************************)
\* path_cache.get(len.saturating_sub(back)).unwrap_or(&0)
PathBack(path_cache, back) ==
    LET i == Max(Len(path_cache) - back, 0)
    IN IF i < Len(path_cache) THEN path_cache[i + 1] ELSE 0

\* The frame of page_no, which the caller holds pinned, gets the buffer, is
\* unpinned dirty and has its free space registered.
WriteBack(s, page_no, buf) ==
    [s EXCEPT !.buffer_pool = unpin_page(SetFrameData(s.buffer_pool, page_no, buf),
                                         page_no, TRUE),
              !.free_list = register(@, page_no, compute_free_space(buf, s.page_size))]

\* fetch_page of a page just allocated, then WriteBack: how a new node is
\* written. [ok, panic, st]
WriteAllocated(s, page_no, buf) ==
    LET Fetched(f) ==
            IF ~f.ok THEN [ok |-> FALSE, panic |-> f.panic,
                           st |-> [s EXCEPT !.buffer_pool = f.bp]]
            ELSE [ok |-> TRUE, panic |-> FALSE,
                  st |-> WriteBack([s EXCEPT !.buffer_pool = f.bp], page_no, buf)]
    IN Fetched(fetch_page(s.buffer_pool, page_no))

\* pagefile.allocate_page(): [page_no, st]
AllocateNode(s) ==
    LET a == allocate_page(s.buffer_pool.pagefile, s.buffer_pool.zero)
    IN [page_no |-> a.page_no, st |-> [s EXCEPT !.buffer_pool.pagefile = a.file]]

\* insert_into_parent: [ok, panic, st, new_root]
RECURSIVE insert_into_parent(_, _, _, _, _, _, _)
insert_into_parent(s, order, path_cache, root_page, left_page, split_key, right_page) ==
    LET stop(ok, panic, s1, root) ==
            [ok |-> ok, panic |-> panic, st |-> s1, new_root |-> root]
        parent_page == path_cache[Len(path_cache) - 1]
        parent == PathBack(path_cache, 3)
        NewRoot(a) ==
            LET Written(w) == stop(w.ok, w.panic, w.st,
                                   IF w.ok THEN a.page_no ELSE root_page)
            IN Written(WriteAllocated(a.st, a.page_no,
                           Internal_serialize(NodeHeader(Internal, 1, 0), <<split_key>>,
                                              <<left_page, right_page>>, s.page_size)))
        Propagate(a, promote_key, right_buf) ==
            LET Written(w) ==
                    IF ~w.ok THEN stop(FALSE, w.panic, w.st, root_page)
                    ELSE insert_into_parent(w.st, order, path_cache, root_page,
                                            parent_page, promote_key, a.page_no)
            IN Written(WriteAllocated(a.st, a.page_no, right_buf))
        Split(s1, keys, children, key_count) ==
            LET mid == key_count \div 2
                ks == split_off(keys, mid + 1)
                cs == split_off(children, mid + 1)
                left_buf == Internal_serialize(NodeHeader(Internal, mid, parent), ks.left,
                                               SubSeq(cs.left, 1, mid + 1), s.page_size)
                right_buf == Internal_serialize(NodeHeader(Internal, Len(ks.right), parent),
                                                ks.right, cs.right, s.page_size)
            IN Propagate(AllocateNode(WriteBack(s1, parent_page, left_buf)),
                         keys[mid + 1], right_buf)
        Inserted(s1, keys, children, key_count) ==
            IF key_count <= order
            THEN stop(TRUE, FALSE,
                      WriteBack(s1, parent_page,
                                Internal_serialize(NodeHeader(Internal, key_count, parent),
                                                   keys, children, s.page_size)),
                      root_page)
            ELSE Split(s1, keys, children, key_count)
        Read(s1, d) ==
            LET at == {i \in 1..Len(d.children) : d.children[i] = left_page}
                idx == CHOOSE i \in at : \A j \in at : i <= j
            IN IF ~d.ok THEN stop(FALSE, d.panic, s1, root_page)
               ELSE IF \E i \in 1..Len(d.keys) : d.keys[i] = split_key
                    THEN stop(FALSE, FALSE, s1, root_page)
               ELSE IF at = {} THEN stop(FALSE, TRUE, s1, root_page)
               ELSE Inserted(s1, InsertAt(d.keys, idx - 1, split_key),
                             InsertAt(d.children, idx, right_page), d.header.key_count + 1)
        Fetched(f) ==
            IF ~f.ok THEN stop(FALSE, f.panic, [s EXCEPT !.buffer_pool = f.bp], root_page)
            ELSE Read([s EXCEPT !.buffer_pool = f.bp],
                      Internal_deserialize(f.bp.pool[parent_page].data))
    IN IF left_page = root_page THEN NewRoot(AllocateNode(s))
       ELSE IF Len(path_cache) < 2 THEN stop(FALSE, TRUE, s, root_page)
       ELSE Fetched(fetch_page(s.buffer_pool, parent_page))

\* insert_into_leaf: [ok, panic, st, new_root]
insert_into_leaf(s, order, path_cache, leaf_page, key, rid, root_page) ==
    LET stop(ok, panic, s1, root) ==
            [ok |-> ok, panic |-> panic, st |-> s1, new_root |-> root]
        parent == PathBack(path_cache, 2)
        Propagate(w, split_key, right_page) ==
            IF ~w.ok THEN stop(FALSE, w.panic, w.st, root_page)
            ELSE insert_into_parent(w.st, order, path_cache, root_page, leaf_page,
                                    split_key, right_page)
        Split(a, keys, rids, key_count, next_leaf) ==
            LET mid == (key_count + 1) \div 2
                ks == split_off(keys, mid)
                rs == split_off(rids, mid)
                left_buf == Leaf_serialize(NodeHeader(Leaf, Len(ks.left), parent),
                                           ks.left, rs.left, a.page_no, s.page_size)
                right_buf == Leaf_serialize(NodeHeader(Leaf, Len(ks.right), parent),
                                            ks.right, rs.right, next_leaf, s.page_size)
            IN Propagate(WriteAllocated(WriteBack(a.st, leaf_page, left_buf),
                                        a.page_no, right_buf),
                         ks.right[1], a.page_no)
        Inserted(s1, keys, rids, key_count, next_leaf) ==
            IF key_count <= order
            THEN stop(TRUE, FALSE,
                      WriteBack(s1, leaf_page,
                                Leaf_serialize(NodeHeader(Leaf, key_count, parent),
                                               keys, rids, next_leaf, s.page_size)),
                      root_page)
            ELSE Split(AllocateNode(s1), keys, rids, key_count, next_leaf)
        Read(s1, d) ==
            LET b == binary_search(d.keys, key)
            IN IF ~d.ok THEN stop(FALSE, d.panic, s1, root_page)
               ELSE IF b.found THEN stop(FALSE, FALSE, s1, root_page)
               ELSE Inserted(s1, InsertAt(d.keys, b.idx, key), InsertAt(d.rids, b.idx, rid),
                             d.header.key_count + 1, d.next_leaf)
        Fetched(f) ==
            IF ~f.ok THEN stop(FALSE, f.panic, [s EXCEPT !.buffer_pool = f.bp], root_page)
            ELSE Read([s EXCEPT !.buffer_pool = f.bp],
                      Leaf_deserialize(f.bp.pool[leaf_page].data))
    IN Fetched(fetch_page(s.buffer_pool, leaf_page))

\* NodeModifier::insert: [ok, panic, hang, st, new_root]
NodeModifier_insert(s, order, root_page, key, rid) ==
    LET Done(r) == [ok |-> r.ok, panic |-> r.panic, hang |-> FALSE, st |-> r.st,
                    new_root |-> r.new_root]
        Located(sp) ==
            IF ~sp.ok
            THEN [ok |-> FALSE, panic |-> sp.panic, hang |-> sp.hang, st |-> sp.st,
                  new_root |-> root_page]
            ELSE Done(insert_into_leaf(sp.st, order, sp.path, sp.path[Len(sp.path)], key,
                                       rid, root_page))
    IN Located(search_path(s, root_page, key))

(***************************************************************************)
(* BPlusTree (index/bplustree.rs). A tree value is the record              *)
(*   [storage, order, root_page]                                           *)
(***************************************************************************)
\* u64::MAX, written as UGe reads it: the values from 2^63 up are the negative
\* integers, the largest of them the last.
U64_MAX == 0 - 1

\* BPlusTree::new on a fresh file: the root is an empty leaf. The fetch of the
\* page just allocated, into an empty pool, cannot fail.
BPlusTree_new(page_size, pool_size, order, zero) ==
    LET buf == Leaf_serialize(NodeHeader(Leaf, 0, 0), <<>>, <<>>, 0, page_size)
        Fetched(s, f, root_page) ==
            [storage |-> [s EXCEPT !.buffer_pool =
                             unpin_page(SetFrameData(f.bp, root_page, buf), root_page, TRUE)],
             order |-> order,
             root_page |-> root_page]
        Allocated(a) == Fetched(a.st, fetch_page(a.st.buffer_pool, a.page_no), a.page_no)
    IN Allocated(AllocateNode(Storage_new(page_size, pool_size, zero)))

\* BPlusTree::insert: [ok, panic, hang, tree]
BPlusTree_insert(t, key, rid) ==
    LET Done(r) ==
            [ok |-> r.ok, panic |-> r.panic, hang |-> r.hang,
             tree |-> [t EXCEPT !.storage = r.st,
                                !.root_page = IF r.ok THEN r.new_root ELSE @]]
    IN Done(NodeModifier_insert(t.storage, t.order, t.root_page, key, rid))

\* The fetch, the deserialization and the unpin of a leaf, as get and the loop
\* of range_scan_keys do them. [ok, panic, st, node]
ReadLeaf(s, leaf) ==
    LET Read(s1, d) ==
            IF ~d.ok THEN [ok |-> FALSE, panic |-> d.panic, st |-> s1, node |-> <<>>]
            ELSE [ok |-> TRUE, panic |-> FALSE, node |-> <<d>>,
                  st |-> [s1 EXCEPT !.buffer_pool = unpin_page(@, leaf, FALSE)]]
        Fetched(f) ==
            IF ~f.ok THEN [ok |-> FALSE, panic |-> f.panic, node |-> <<>>,
                           st |-> [s EXCEPT !.buffer_pool = f.bp]]
            ELSE Read([s EXCEPT !.buffer_pool = f.bp], Leaf_deserialize(f.bp.pool[leaf].data))
    IN Fetched(fetch_page(s.buffer_pool, leaf))

\* BPlusTree::get: [ok, panic, hang, tree, result] with result an Option<RID>
BPlusTree_get(t, key) ==
    LET out(ok, panic, hang, s, result) ==
            [ok |-> ok, panic |-> panic, hang |-> hang, result |-> result,
             tree |-> [t EXCEPT !.storage = s]]
        Looked(d, s) ==
            LET at == {i \in 1..Len(d.keys) : d.keys[i] = key}
            IN out(TRUE, FALSE, FALSE, s,
                   IF at = {} THEN None
                   ELSE Some(d.rids[CHOOSE i \in at : \A j \in at : i <= j]))
        Read(r) == IF ~r.ok THEN out(FALSE, r.panic, FALSE, r.st, None)
                   ELSE Looked(r.node[1], r.st)
        Located(sp) == IF ~sp.ok THEN out(FALSE, sp.panic, sp.hang, sp.st, None)
                       ELSE Read(ReadLeaf(sp.st, sp.path[Len(sp.path)]))
    IN Located(search_path(t.storage, t.root_page, key))

\* The for loop of range_scan_keys over one leaf: the pairs pushed.
RECURSIVE ScanLeaf(_, _, _, _, _)
ScanLeaf(keys, rids, i, lo, hi) ==
    IF i > Len(keys) \/ i > Len(rids) THEN <<>>
    ELSE IF ~UGe(hi, keys[i]) THEN <<>>
    ELSE (IF UGe(keys[i], lo) THEN <<<<keys[i], rids[i]>>>> ELSE <<>>)
            \o ScanLeaf(keys, rids, i + 1, lo, hi)

\* The loop of range_scan_keys from `leaf`. A chain of next_leaf pointers longer
\* than the file has pages is a cycle, and the loop never ends.
\* [ok, panic, hang, st, results]
RECURSIVE ScanLoop(_, _, _, _, _, _)
ScanLoop(s, leaf, lo, hi, results, visited) ==
    LET out(ok, panic, hang, s1, res) ==
            [ok |-> ok, panic |-> panic, hang |-> hang, st |-> s1, results |-> res]
        Scanned(d, s1, res) ==
            IF d.next_leaf = 0 THEN out(TRUE, FALSE, FALSE, s1, res)
            ELSE ScanLoop(s1, d.next_leaf, lo, hi, res, visited + 1)
        Read(r) ==
            IF ~r.ok THEN out(FALSE, r.panic, FALSE, r.st, <<>>)
            ELSE Scanned(r.node[1], r.st,
                         results \o ScanLeaf(r.node[1].keys, r.node[1].rids, 1, lo, hi))
    IN IF visited > num_pages(s.buffer_pool.pagefile) THEN out(FALSE, FALSE, TRUE, s, <<>>)
       ELSE Read(ReadLeaf(s, leaf))

\* BPlusTree::range_scan_keys: [ok, panic, hang, tree, result]
BPlusTree_range_scan_keys(t, lo, hi) ==
    LET out(ok, panic, hang, s, result) ==
            [ok |-> ok, panic |-> panic, hang |-> hang, result |-> result,
             tree |-> [t EXCEPT !.storage = s]]
        Scanned(r) == out(r.ok, r.panic, r.hang, r.st, r.results)
        Located(sp) == IF ~sp.ok THEN out(FALSE, sp.panic, sp.hang, sp.st, <<>>)
                       ELSE Scanned(ScanLoop(sp.st, sp.path[Len(sp.path)], lo, hi, <<>>, 1))
    IN Located(search_path(t.storage, t.root_page, lo))

(***************************************************************************)
(* The index driven by one caller: keys arrive in any order, each at most  *)
(* once, and between the inserts the caller looks keys up and scans the    *)
(* whole key range. bt_done lists the keys passed to insert, bt_last is    *)
(* the last call and what it returned. A call that panicked or never       *)
(* returns ends the run. The pool is large enough for every node page to   *)
(* stay resident, so that no fetch fails for want of a frame.              *)
(***************************************************************************)
Order == 2
NumKeys == 6

MaxAgain == 1

Keys == 1..NumKeys

\* The RID the caller indexes under `key`.
RidOf(key) == <<key + NumKeys, key % 2>>
\* Another RID, for a second insert of the key.
OtherRid(key) == <<key + NumKeys, 1 - (key % 2)>>

\* The cells of a node page: room for a leaf or an internal node of Order + 1 keys.
BTPageSize == Len(HeaderFields) + 3 * (Order + 1) + 1
BTPoolSize == 3 * NumKeys

Called(op, key, r) ==
    [op |-> op, key |-> key, ok |-> r.ok, panic |-> r.panic, hang |-> r.hang,
     result |-> r.result]

BTInit ==
    /\ bt = BPlusTree_new(BTPageSize, BTPoolSize, Order, [i \in 1..BTPageSize |-> 0])
    /\ bt_done = <<>>
    /\ bt_ok = TRUE
    /\ bt_again = 0
    /\ bt_last = [op |-> "new", key |-> 0, ok |-> TRUE, panic |-> FALSE, hang |-> FALSE,
                  result |-> <<>>]

BTAlive == ~bt_last.panic /\ ~bt_last.hang

\* insert(key, rid): `again` says that the key was inserted before.
BTInsertCall(key, rid, again) ==
    /\ BTAlive
    /\ LET r == BPlusTree_insert(bt, key, rid)
       IN /\ bt' = r.tree
          /\ bt_last' = [op |-> IF again THEN "insert_again" ELSE "insert", key |-> key,
                         ok |-> r.ok, panic |-> r.panic, hang |-> r.hang, result |-> <<>>]
          /\ bt_ok' = (bt_ok /\ r.ok)
    /\ bt_done' = IF again THEN bt_done ELSE Append(bt_done, key)
    /\ bt_again' = IF again THEN bt_again + 1 ELSE bt_again
    /\ UNCHANGED bt_others

\* insert(key, RidOf(key)) of a key not inserted before
BTInsert(key) ==
    /\ key \notin Range(bt_done)
    /\ BTInsertCall(key, RidOf(key), FALSE)

\* insert of any key: with RidOf(key) when the key was not inserted before,
\* with OtherRid(key) when it was (at most MaxAgain times).
BTInsertAny(key) ==
    /\ key \in Range(bt_done) => bt_again < MaxAgain
    /\ BTInsertCall(key, IF key \in Range(bt_done) THEN OtherRid(key) ELSE RidOf(key),
                    key \in Range(bt_done))

\* get(key)
BTGet(key) ==
    /\ BTAlive
    /\ PinsBelowMax(bt.storage.buffer_pool)
    /\ LET r == BPlusTree_get(bt, key)
       IN /\ bt' = r.tree
          /\ bt_last' = Called("get", key, r)
    /\ UNCHANGED <<bt_done, bt_ok, bt_again, bt_others>>

\* range_scan_keys(0, u64::MAX)
BTRangeScan ==
    /\ BTAlive
    /\ PinsBelowMax(bt.storage.buffer_pool)
    /\ LET r == BPlusTree_range_scan_keys(bt, 0, U64_MAX)
       IN /\ bt' = r.tree
          /\ bt_last' = Called("range_scan_keys", 0, r)
    /\ UNCHANGED <<bt_done, bt_ok, bt_again, bt_others>>

BTNext ==
    \/ \E key \in Keys : BTInsert(key)
    \/ \E key \in Keys : BTGet(key)
    \/ BTRangeScan

\* The inserts alone, with at most MaxAgain of them repeating a key.
BTAgainNext == \E key \in Keys : BTInsertAny(key)

\* The (key, rid) pairs of the keys in ks, ascending by key.
RECURSIVE Ascending(_)
Ascending(ks) ==
    IF ks = {} THEN <<>>
    ELSE LET k == CHOOSE x \in ks : \A y \in ks : x <= y
         IN <<<<k, RidOf(k)>>>> \o Ascending(ks \ {k})

\* C5: after any sequence of inserts of pairwise distinct keys, a get of an
\* inserted key returns the RID it was inserted with, and range_scan_keys(0, MAX)
\* returns every inserted (key, rid) pair exactly once in ascending key order.
C5_InsertedKeysAreFound ==
    /\ (bt_last.op = "get" /\ bt_last.key \in Range(bt_done))
          => (bt_last.ok /\ bt_last.result = Some(RidOf(bt_last.key)))
    /\ bt_last.op = "range_scan_keys"
          => (bt_last.ok /\ bt_last.result = Ascending(Range(bt_done)))

(***************************************************************************)
(* BPlusTree::range_scan(predicate) for the predicate `column op literal`: *)
(* the caller indexes the keys of IdxKeys, each at most once, and asks for *)
(* the RIDs of a predicate; the literal is an i64 cast to u64, so that -1  *)
(* is the key u64::MAX. Four keys leave the root internal node unsplit.    *)
(***************************************************************************)
NumIdxKeys == 4

IdxKeys == 0..(NumIdxKeys - 1)

\* *val as u64: an i64 and the u64 of the same bits are written alike here
\* (the negative numbers are the values from 2^63 up).
as_u64(val) == val

IdxLiterals == IdxKeys \cup {0 - 1}

IdxOps == {"Eq", "Lt", "Gt"}

\* u64::saturating_sub(1)
saturating_sub_1(key) == IF key = 0 THEN 0 ELSE key - 1

\* key + 1 on u64: at u64::MAX a debug build panics and a release build wraps
\* to 0. [panic, val]
UAddOne(key, build) ==
    IF key = U64_MAX
    THEN [panic |-> build = "debug", val |-> 0]
    ELSE [panic |-> FALSE, val |-> key + 1]

\* results.into_iter().map(|(_, rid)| rid).collect()
RidsOf(results) == [i \in 1..Len(results) |-> results[i][2]]

\* BPlusTree::range_scan on BinaryOp { left: column, op, right: Literal(Int(val)) }:
\* [ok, panic, hang, tree, result]
BPlusTree_range_scan(t, op, val, build) ==
    LET key == as_u64(val)
        Rids(r) == [r EXCEPT !.result = IF r.ok THEN RidsOf(r.result) ELSE <<>>]
        One(r) == [r EXCEPT !.result = IF r.ok /\ r.result # None THEN <<r.result[1]>> ELSE <<>>]
        From(lo) ==
            IF lo.panic
            THEN [ok |-> FALSE, panic |-> TRUE, hang |-> FALSE, result |-> <<>>, tree |-> t]
            ELSE Rids(BPlusTree_range_scan_keys(t, lo.val, U64_MAX))
    IN CASE op = "Eq" -> One(BPlusTree_get(t, key))
         [] op = "Lt" -> Rids(BPlusTree_range_scan_keys(t, 0, saturating_sub_1(key)))
         [] op = "Gt" -> From(UAddOne(key, build))

\* insert(key, RidOf(key)) of a key of IdxKeys not inserted before
IdxInsert(key) ==
    /\ key \in IdxKeys
    /\ BTInsert(key)

\* range_scan(column op val)
IdxRangeScan(op, val) ==
    /\ BTAlive
    /\ PinsBelowMax(bt.storage.buffer_pool)
    /\ LET r == BPlusTree_range_scan(bt, op, val, st_build)
       IN /\ bt' = r.tree
          /\ bt_last' = [op |-> "range_scan", cmp |-> op, key |-> as_u64(val), ok |-> r.ok,
                         panic |-> r.panic, hang |-> r.hang, result |-> r.result]
    /\ UNCHANGED <<bt_done, bt_ok, bt_again, bt_others>>

IdxNext ==
    \/ \E key \in IdxKeys : IdxInsert(key)
    \/ \E op \in IdxOps, val \in IdxLiterals : IdxRangeScan(op, val)

\* The RIDs range_scan is to return for `column op k` over the keys indexed.
Matching(op, k) ==
    {RidOf(key) : key \in {x \in Range(bt_done) :
                              CASE op = "Eq" -> x = k
                                [] op = "Lt" -> ~UGe(x, k)
                                [] op = "Gt" -> ~UGe(k, x)}}

\* C39: an index scan of `column op k` returns Ok, without arithmetic
\* overflow, and its RIDs are exactly those of the indexed keys equal to k
\* (=), in [0, k-1] (<, none when k = 0) or in [k+1, MAX_U64] (>, none when
\* k = MAX_U64), each once.
C39_IndexScanRanges ==
    (bt_last.op = "range_scan")
        => /\ bt_last.ok
           /\ Range(bt_last.result) = Matching(bt_last.cmp, bt_last.key)
           /\ Len(bt_last.result) = Cardinality(Matching(bt_last.cmp, bt_last.key))

(***************************************************************************)
(* The tree as its pages show it (the frame of a resident page, else the   *)
(* page of the file).                                                      *)
(***************************************************************************)
NodeBuf(t, page_no) == Visible(t.storage.buffer_pool, page_no)

TreePages(t) == 0..(num_pages(t.storage.buffer_pool.pagefile) - 1)

LeafPages(t) == {page_no \in TreePages(t) : NodeBuf(t, page_no)[1] = Leaf}

InternalPages(t) == {page_no \in TreePages(t) : NodeBuf(t, page_no)[1] = Internal}

LeafAt(t, page_no) == Leaf_deserialize(NodeBuf(t, page_no))

StrictlyIncreasing(keys) == \A i \in 1..(Len(keys) - 1) : keys[i] < keys[i + 1]

\* The leaves met by following next_leaf from leaf page_no, n at most.
RECURSIVE LeafChain(_, _, _)
LeafChain(t, page_no, n) ==
    IF n = 0 THEN <<>>
    ELSE <<page_no>> \o
         (IF LeafAt(t, page_no).next_leaf = 0 \/ LeafAt(t, page_no).next_leaf \notin LeafPages(t)
          THEN <<>>
          ELSE LeafChain(t, LeafAt(t, page_no).next_leaf, n - 1))

\* The leaves that no leaf names as its next_leaf (0 names no leaf).
HeadLeaves(t) ==
    {page_no \in LeafPages(t) :
        \A q \in LeafPages(t) : LeafAt(t, q).next_leaf \in {0, page_no} => LeafAt(t, q).next_leaf = 0}

\* C17: while every insert has returned Ok, the keys of every leaf are
\* strictly increasing, its next_leaf is 0 or a leaf all of whose keys are
\* greater than its own, and the chain of next_leaf from the one leaf that
\* has no predecessor visits every leaf exactly once.
C17_LeavesOrderedAndChained ==
    bt_ok =>
        /\ \A page_no \in LeafPages(bt) :
              /\ LeafAt(bt, page_no).ok
              /\ StrictlyIncreasing(LeafAt(bt, page_no).keys)
              /\ \/ LeafAt(bt, page_no).next_leaf = 0
                 \/ /\ LeafAt(bt, page_no).next_leaf \in LeafPages(bt)
                    /\ \A i \in 1..Len(LeafAt(bt, page_no).keys) :
                          \A j \in 1..Len(LeafAt(bt, LeafAt(bt, page_no).next_leaf).keys) :
                              LeafAt(bt, page_no).keys[i]
                                  < LeafAt(bt, LeafAt(bt, page_no).next_leaf).keys[j]
        /\ Cardinality(HeadLeaves(bt)) = 1
        /\ \A first \in HeadLeaves(bt) :
              /\ Len(LeafChain(bt, first, Cardinality(LeafPages(bt)) + 1))
                     = Cardinality(LeafPages(bt))
              /\ Range(LeafChain(bt, first, Cardinality(LeafPages(bt)) + 1)) = LeafPages(bt)

InternalAt(t, page_no) == Internal_deserialize(NodeBuf(t, page_no))

\* The keys of the leaves under node page_no, through at most `depth` levels
\* of internal nodes; a child pointer that is no page of the file has none.
RECURSIVE SubtreeKeys(_, _, _)
SubtreeKeys(t, page_no, depth) ==
    IF page_no \notin TreePages(t) THEN {}
    ELSE IF page_no \in LeafPages(t) THEN Range(LeafAt(t, page_no).keys)
    ELSE IF depth = 0 \/ ~InternalAt(t, page_no).ok THEN {}
    ELSE UNION {SubtreeKeys(t, InternalAt(t, page_no).children[i], depth - 1) :
                   i \in 1..Len(InternalAt(t, page_no).children)}

\* C18: while every insert has returned Ok, every internal node read back
\* from its page has one child more than keys, each child a node page other
\* than itself, and keys[i] separates the keys under children[i] (all
\* smaller) from the keys under children[i+1] (none smaller).
C18_InternalNodesSeparate ==
    bt_ok =>
        \A page_no \in InternalPages(bt) :
            /\ InternalAt(bt, page_no).ok
            /\ Len(InternalAt(bt, page_no).children) = Len(InternalAt(bt, page_no).keys) + 1
            /\ \A i \in 1..Len(InternalAt(bt, page_no).children) :
                  InternalAt(bt, page_no).children[i] \in TreePages(bt) \ {page_no}
            /\ \A i \in 1..Len(InternalAt(bt, page_no).keys) :
                  /\ \A k \in SubtreeKeys(bt, InternalAt(bt, page_no).children[i],
                                          Cardinality(TreePages(bt))) :
                        k < InternalAt(bt, page_no).keys[i]
                  /\ \A k \in SubtreeKeys(bt, InternalAt(bt, page_no).children[i + 1],
                                          Cardinality(TreePages(bt))) :
                        k >= InternalAt(bt, page_no).keys[i]

\* C19: an insert of a key that is already in the tree returns an error,
\* the root page stays the same, get(key) still returns the RID the key was
\* first inserted with, and the full range scan returns what it returned
\* before the call.
C19_DuplicateInsertIsRejected ==
    [][bt_last'.op = "insert_again" =>
          /\ ~bt_last'.ok
          /\ bt'.root_page = bt.root_page
          /\ BPlusTree_get(bt', bt_last'.key).result = Some(RidOf(bt_last'.key))
          /\ BPlusTree_range_scan_keys(bt', 0, U64_MAX).result
                 = BPlusTree_range_scan_keys(bt, 0, U64_MAX).result]_vars

\* The internal pages that the step to the primed state split: full before,
\* holding floor(k / 2) keys after, k the number of keys with the new one.
SplitInternals ==
    {page_no \in InternalPages(bt) \cap InternalPages(bt') :
        /\ InternalAt(bt, page_no).ok
        /\ InternalAt(bt, page_no).header.key_count = bt.order
        /\ InternalAt(bt', page_no).header.key_count = (bt.order + 1) \div 2}

\* Left page and right page hold the halves of `keys` and `children` about
\* position mid (0-based), and some internal node has keys[mid] between them.
HalvesAbout(t, left, right, keys, children, mid) ==
    /\ InternalAt(t, left).ok /\ InternalAt(t, right).ok
    /\ InternalAt(t, left).keys = SubSeq(keys, 1, mid)
    /\ InternalAt(t, left).children = SubSeq(children, 1, mid + 1)
    /\ InternalAt(t, right).keys = SubSeq(keys, mid + 2, Len(keys))
    /\ InternalAt(t, right).children = SubSeq(children, mid + 2, Len(children))
    /\ keys[mid + 1] \notin Range(InternalAt(t, left).keys) \cup Range(InternalAt(t, right).keys)
    /\ \E parent \in InternalPages(t) \ {left, right} :
          \E i \in 1..Len(InternalAt(t, parent).keys) :
              /\ InternalAt(t, parent).keys[i] = keys[mid + 1]
              /\ InternalAt(t, parent).children[i] = left
              /\ InternalAt(t, parent).children[i + 1] = right

\* C30: when an insert that returns Ok gives an internal node k > order keys,
\* then, as read back from their pages, the node keeps keys[0..mid) and
\* children[0..mid+1), a new internal page holds keys[mid+1..) and
\* children[mid+1..), mid = floor(k / 2), and keys[mid] is in neither node
\* and is the separator of the two in their parent; keys and children are
\* the node's before the insert with the new separator and child put in.
C30_InternalSplitHalves ==
    [][(bt_last'.op = "insert" /\ bt_last'.ok) =>
          \A left \in SplitInternals :
              \E right \in InternalPages(bt') \ TreePages(bt) :
                  \E at \in 0..bt.order, key \in Keys, child \in TreePages(bt') :
                      HalvesAbout(bt', left, right,
                                  InsertAt(InternalAt(bt, left).keys, at, key),
                                  InsertAt(InternalAt(bt, left).children, at + 1, child),
                                  (bt.order + 1) \div 2)]_vars

(***************************************************************************)
(* A tree grown by inserts of ascending keys, tall enough for an internal  *)
(* node below the root to overflow.                                        *)
(***************************************************************************)
NumDeepKeys == 12

DeepKeys == 1..NumDeepKeys

\* insert(key, RidOf(key)) of a key greater than every key inserted so far
BTInsertAscending(key) ==
    /\ \A i \in 1..Len(bt_done) : bt_done[i] < key
    /\ BTInsertCall(key, RidOf(key), FALSE)

DeepNext == \E key \in DeepKeys : BTInsertAscending(key)

\* The search path of key has a full leaf at its end, under a full internal
\* node that is not the root.
SplitBelowRoot(path) ==
    /\ Len(path) >= 3
    /\ LeafAt(bt, path[Len(path)]).header.key_count = bt.order
    /\ InternalAt(bt, path[Len(path) - 1]).header.key_count = bt.order

\* right directly follows left among the children of node page_no of t.
DirectlyAfter(t, page_no, left, right) ==
    \E i \in 1..Len(InternalAt(t, page_no).keys) :
        /\ InternalAt(t, page_no).children[i] = left
        /\ InternalAt(t, page_no).children[i + 1] = right

\* C35: an insert that overflows a leaf and the internal node above it,
\* which is not the root, returns Ok; the new internal page comes directly
\* after the node that split among the children of an internal node, which
\* is that node's parent on the search path unless the parent was full too;
\* and the root changes only if every node of the path was full.
C35_SplitPropagatesToActualParent ==
    [][\A key \in DeepKeys :
          LET path == search_path(bt.storage, bt.root_page, key).path
              node == path[Len(path) - 1]
              above == path[Len(path) - 2]
          IN (/\ bt_last'.op = "insert" /\ bt_last'.key = key
              /\ bt_done' = Append(bt_done, key)
              /\ SplitBelowRoot(path))
             => /\ bt_last'.ok
                /\ \E right \in InternalPages(bt') \ TreePages(bt) :
                      \E page_no \in InternalPages(bt') :
                          /\ DirectlyAfter(bt', page_no, node, right)
                          /\ InternalAt(bt, above).header.key_count < bt.order
                                => page_no = above
                /\ bt'.root_page # bt.root_page
                      => \A i \in 1..(Len(path) - 1) :
                             InternalAt(bt, path[i]).header.key_count = bt.order]_vars

\* No frame of the pool is pinned.
NoFramePinned(b) == \A p \in Resident(b) : b.pool[p].pin_count = 0

\* The Storage step to the primed state is a call that returned, with Ok or
\* with an error, and did not panic.
StorageCallReturned ==
    \/ /\ st_log' # st_log
       /\ ~Storage_insert(st, st_log'[Len(st_log')].data, st_build).panic
    \/ /\ st_log' = st_log
       /\ \E rid \in AskedRids :
             st' = Storage_fetch(st, rid).st /\ ~Storage_fetch(st, rid).panic

\* C34: pins are balanced. After a B+Tree operation has returned, with Ok
\* or with an error, no frame of the tree's buffer pool is pinned; and a
\* Storage operation that finds no frame pinned and returns, with Ok or with
\* an error, leaves no frame pinned.
C34_PinsAreBalanced ==
    /\ []((~bt_last.panic /\ ~bt_last.hang) => NoFramePinned(bt.storage.buffer_pool))
    /\ [][(NoFramePinned(st.buffer_pool) /\ StorageCallReturned)
             => NoFramePinned(st'.buffer_pool)]_vars

(***************************************************************************)
(* Tables, rows and the sequential scan (storage/storage.rs and            *)
(* query/executor.rs).                                                     *)
(***************************************************************************)
\* Catalog::create_table: [ok, catalog]
create_table(catalog, name, columns) ==
    IF name \in DOMAIN catalog.tables THEN [ok |-> FALSE, catalog |-> catalog]
    ELSE [ok |-> TRUE,
          catalog |-> [catalog EXCEPT
                         !.tables = PoolInsert(@, name, [name |-> name, columns |-> columns,
                                                         records |-> <<>>])]]

\* An i64 is held in three limbs of 24, 24 and 16 bits, low limb first.
\* i64::from_le_bytes
i64_from_le_bytes(b) ==
    [lo |-> FromLE(SubSeq(b, 1, 3)), mid |-> FromLE(SubSeq(b, 4, 6)),
     hi |-> FromLE(SubSeq(b, 7, 8))]

\* i64::to_le_bytes
i64_to_le_bytes(x) == LEBytes(x.lo, 3) \o LEBytes(x.mid, 3) \o LEBytes(x.hi, 2)

\* The i64 of a small integer n (two's complement for n < 0).
I64(n) == i64_from_le_bytes(LEBytes(n, 8))

\* binder::Value: Int(i64) and String(String), a String being its bytes.
IntValue(n) == [typ |-> "Int", val |-> I64(n)]
StringValue(bytes) == [typ |-> "String", val |-> bytes]

\* serialize_row, the loop over the values: per value the tag 0 and the
\* eight bytes of the integer, or the tag 1, the length and the bytes.
RECURSIVE SerializeValues(_)
SerializeValues(values) ==
    IF values = <<>> THEN <<>>
    ELSE (IF Head(values).typ = "Int"
          THEN <<0>> \o i64_to_le_bytes(Head(values).val)
          ELSE <<1>> \o LEBytes(Len(Head(values).val), 4) \o Head(values).val)
         \o SerializeValues(Tail(values))

\* Storage::serialize_row: the number of values, then the values.
serialize_row(values) == LEBytes(Len(values), 4) \o SerializeValues(values)

\* Storage::insert_row: [ok, panic, st]
Storage_insert_row(s, table_name, values, build) ==
    LET Inserted(r) ==
            IF ~r.ok THEN [ok |-> FALSE, panic |-> r.panic, st |-> r.st]
            ELSE [ok |-> TRUE, panic |-> FALSE,
                  st |-> [r.st EXCEPT !.catalog.tables[table_name].records = Append(@, r.rid)]]
    IN IF table_name \notin DOMAIN s.catalog.tables
       THEN [ok |-> FALSE, panic |-> FALSE, st |-> s]
       ELSE Inserted(Storage_insert(s, serialize_row(values), build))

\* Storage::create_index: the root leaf of the index is a page of the data
\* file. [ok, panic, st]
Storage_create_index(s, table_name, order) ==
    LET buf == Leaf_serialize(NodeHeader(Leaf, 0, 0), <<>>, <<>>, 0, s.page_size)
        Fetched(s1, f, root) ==
            IF ~f.ok THEN [ok |-> FALSE, panic |-> f.panic, st |-> [s1 EXCEPT !.buffer_pool = f.bp]]
            ELSE [ok |-> TRUE, panic |-> FALSE,
                  st |-> [s1 EXCEPT
                            !.buffer_pool = unpin_page(SetFrameData(f.bp, root, buf), root, TRUE),
                            !.free_list = register(@, root, Max(s.page_size - Len(buf), 0)),
                            !.catalog.indexes =
                                PoolInsert(@, table_name,
                                           (IF table_name \in DOMAIN @ THEN @[table_name] ELSE <<>>)
                                               \o <<[order |-> order, root_page |-> root]>>)]]
        Allocated(a) ==
            Fetched([s EXCEPT !.buffer_pool.pagefile = a.file],
                    fetch_page([s.buffer_pool EXCEPT !.pagefile = a.file], a.page_no), a.page_no)
    IN IF table_name \notin DOMAIN s.catalog.tables
       THEN [ok |-> FALSE, panic |-> FALSE, st |-> s]
       ELSE Allocated(allocate_page(s.buffer_pool.pagefile, s.buffer_pool.zero))

\* Page::iter_slots: the slots whose tuple is not empty, in slot order.
\* [panic, slots]
iter_slots(data) ==
    LET live == {slot_no \in 0..(slot_count(data) - 1) : get_tuple(data, slot_no).tuple # <<>>}
        Sorted(set) == [i \in 1..Cardinality(set) |->
                           CHOOSE x \in set : Cardinality({y \in set : y < x}) = i - 1]
    IN [panic |-> \E slot_no \in 0..(slot_count(data) - 1) : get_tuple(data, slot_no).panic,
        slots |-> Sorted(live)]

\* SeqScanOp::open, the loop over the pages of the file from page_no on.
\* [ok, panic, st, rids]
RECURSIVE OpenScan(_, _, _)
OpenScan(s, page_no, rids) ==
    LET Fetched(f) ==
            LET slots == iter_slots(f.bp.pool[page_no].data)
            IN IF slots.panic
               THEN [ok |-> FALSE, panic |-> TRUE, st |-> [s EXCEPT !.buffer_pool = f.bp], rids |-> rids]
               ELSE OpenScan([s EXCEPT !.buffer_pool = unpin_page(f.bp, page_no, FALSE)],
                             page_no + 1,
                             rids \o [i \in 1..Len(slots.slots) |-> <<page_no, slots.slots[i]>>])
        Step(f) ==
            IF ~f.ok
            THEN [ok |-> FALSE, panic |-> f.panic, st |-> [s EXCEPT !.buffer_pool = f.bp], rids |-> rids]
            ELSE Fetched(f)
    IN IF page_no >= num_pages(s.buffer_pool.pagefile)
       THEN [ok |-> TRUE, panic |-> FALSE, st |-> s, rids |-> rids]
       ELSE Step(fetch_page(s.buffer_pool, page_no))

\* SeqScanOp::open
SeqScanOp_open(s, table) ==
    IF table \notin DOMAIN s.catalog.tables
    THEN [ok |-> FALSE, panic |-> FALSE, st |-> s, rids |-> <<>>]
    ELSE OpenScan(s, 0, <<>>)

\* String::from_utf8 of bytes none of which starts a multi-byte sequence:
\* a byte below 128 is a character, a byte of 248 or more is in no UTF-8 text.
Utf8Ok(bytes) == \A i \in 1..Len(bytes) : bytes[i] < 128

\* SeqScanOp::deserialize_tuple, the loop over the columns of the table from
\* byte `offset` on. [ok, tuple]
RECURSIVE DeserializeColumns(_, _, _, _)
DeserializeColumns(columns, data, offset, tuple) ==
    LET failed == [ok |-> FALSE, tuple |-> tuple]
        Varchar(len) ==
            IF offset + 4 + len > Len(data) THEN failed
            ELSE IF ~Utf8Ok(SubSeq(data, offset + 5, offset + 4 + len)) THEN failed
            ELSE DeserializeColumns(Tail(columns), data, offset + 4 + len,
                     Append(tuple, StringValue(SubSeq(data, offset + 5, offset + 4 + len))))
    IN IF columns = <<>> THEN [ok |-> TRUE, tuple |-> tuple]
       ELSE IF Head(columns).data_type = "Int"
            THEN IF offset + 8 > Len(data) THEN failed
                 ELSE DeserializeColumns(Tail(columns), data, offset + 8,
                          Append(tuple, [typ |-> "Int",
                                         val |-> i64_from_le_bytes(
                                                     SubSeq(data, offset + 1, offset + 8))]))
            ELSE IF offset + 4 > Len(data) THEN failed
                 \* a length of 2^24 or more is beyond the end of any tuple
                 ELSE IF data[offset + 4] > 0 THEN failed
                 ELSE Varchar(FromLE(SubSeq(data, offset + 1, offset + 3)))

\* SeqScanOp::deserialize_tuple
deserialize_tuple(columns, data) == DeserializeColumns(columns, data, 0, <<>>)

\* SeqScanOp::next without predicate, called until it returns None or an
\* error: the tuples returned. [ok, panic, st, rows]
RECURSIVE SeqScanOp_next(_, _, _, _)
SeqScanOp_next(s, columns, rids, rows) ==
    LET Decoded(s1, t) ==
            IF ~t.ok THEN [ok |-> FALSE, panic |-> FALSE, st |-> s1, rows |-> rows]
            ELSE SeqScanOp_next(s1, columns, Tail(rids), Append(rows, t.tuple))
        Fetched(f) ==
            IF ~f.ok THEN [ok |-> FALSE, panic |-> f.panic, st |-> f.st, rows |-> rows]
            ELSE Decoded(f.st, deserialize_tuple(columns, f.data))
    IN IF rids = <<>> THEN [ok |-> TRUE, panic |-> FALSE, st |-> s, rows |-> rows]
       ELSE Fetched(Storage_fetch(s, Head(rids)))

(***************************************************************************)
(* A Storage with two tables, driven through create_table, insert_row,     *)
(* create_index and the sequential scan. Storage::insert never writes the  *)
(* header of the page it allocates, so the client lays out slotted pages   *)
(* itself (Page::new written through the buffer pool, then registered in   *)
(* the free list); pages hold two rows.                                    *)
(***************************************************************************)
MaxScanPages == 2
RowValues == {1, 2}
IndexOrder == 4

ScanPageSize == HEADER_SIZE + 2 * (Len(serialize_row(<<IntValue(0)>>)) + SLOT_ENTRY_SIZE)

NoScan == [op |-> "none", ok |-> FALSE, table |-> "", rids |-> <<>>, records |-> <<>>]

ScInit ==
    /\ sc = Storage_new(ScanPageSize, BPCapacity, [i \in 1..ScanPageSize |-> 0])
    /\ sc_last = NoScan

ScPagesLeft == num_pages(sc.buffer_pool.pagefile) < MaxScanPages

ScCreateTable(name) ==
    /\ sc' = [sc EXCEPT !.catalog = create_table(@, name, <<"id">>).catalog]
    /\ UNCHANGED <<sc_last, sc_others>>

\* allocate_page, fetch_page, frame.data = Page::new(pn, page_size),
\* unpin_page(pn, true), free_list.register(pn, free_space).
ScPreparePage ==
    /\ ScPagesLeft
    /\ LET Fetched(f, pn, page) ==
               /\ f.ok
               /\ sc' = [sc EXCEPT
                           !.buffer_pool = unpin_page(SetFrameData(f.bp, pn, page), pn, TRUE),
                           !.free_list = register(@, pn, free_space(page, st_build).val)]
           Allocated(a) ==
               Fetched(fetch_page([sc.buffer_pool EXCEPT !.pagefile = a.file], a.page_no),
                       a.page_no, Page_new(a.page_no, sc.page_size))
       IN Allocated(allocate_page(sc.buffer_pool.pagefile, sc.buffer_pool.zero))
    /\ UNCHANGED <<sc_last, sc_others>>

ScInsertRow(table, v) ==
    /\ PinsBelowMax(sc.buffer_pool)
    /\ choose_page(sc.free_list, Len(serialize_row(<<IntValue(v)>>)) + SLOT_ENTRY_SIZE) # None
          \/ ScPagesLeft
    /\ sc' = Storage_insert_row(sc, table, <<IntValue(v)>>, st_build).st
    /\ UNCHANGED <<sc_last, sc_others>>

ScCreateIndex(table) ==
    /\ ScPagesLeft
    /\ PinsBelowMax(sc.buffer_pool)
    /\ sc' = Storage_create_index(sc, table, IndexOrder).st
    /\ UNCHANGED <<sc_last, sc_others>>

\* A SELECT planned as a sequential scan of `table`.
ScSeqScan(table) ==
    /\ PinsBelowMax(sc.buffer_pool)
    /\ table \in DOMAIN sc.catalog.tables
    /\ LET o == SeqScanOp_open(sc, table)
       IN /\ sc' = o.st
          /\ sc_last' = [op |-> "open", ok |-> o.ok, table |-> table, rids |-> o.rids,
                         records |-> sc.catalog.tables[table].records]
    /\ UNCHANGED sc_others

ScNext ==
    \/ \E name \in Resources : ScCreateTable(name)
    \/ ScPreparePage
    \/ \E table \in Resources, v \in RowValues : ScInsertRow(table, v)
    \/ \E table \in Resources : ScCreateIndex(table)
    \/ \E table \in Resources : ScSeqScan(table)

\* C16: a sequential scan of a table queues exactly the RIDs of the table's
\* records list: no row of another table, nothing from an index page.
C16_ScanYieldsTheRecordsList ==
    sc_last.ok => Range(sc_last.rids) = Range(sc_last.records)

(***************************************************************************)
(* The catalog through Storage::create_table, with rows inserted into the  *)
(* tables made. A table name is the sequence of its characters, so that    *)
(* names differing by letter case only are different names.                *)
(***************************************************************************)
TableNames == {<<"t", "b">>, <<"T", "b">>, <<"u">>}
ColumnLists == {<<"id">>, <<"id", "v">>}

\* u8::to_ascii_lowercase on the letters of the names above
LowerChar(c) == CASE c = "T" -> "t" [] c = "U" -> "u" [] OTHER -> c

\* str::to_ascii_lowercase
to_ascii_lowercase(name) == [i \in 1..Len(name) |-> LowerChar(name[i])]

\* Storage::create_table(name, columns)
CatCreateTable(name, columns) ==
    /\ LET Created(r) ==
               /\ sc' = [sc EXCEPT !.catalog = r.catalog]
               /\ sc_last' = [op |-> "create_table", ok |-> r.ok, name |-> name]
       IN Created(create_table(sc.catalog, name, columns))
    /\ UNCHANGED sc_others

CatNext ==
    \/ \E name \in TableNames, columns \in ColumnLists : CatCreateTable(name, columns)
    \/ ScPreparePage
    \/ \E table \in TableNames : ScInsertRow(table, 1)

\* C26: create_table fails when a table exists whose name is the new name up
\* to letter case, and a create_table that fails leaves the catalog as it was.
C26_CreateTableRejectsSameNameAnyCase ==
    [][sc_last'.op = "create_table" /\ sc_last' # sc_last =>
          /\ (\E t \in DOMAIN sc.catalog.tables :
                  to_ascii_lowercase(t) = to_ascii_lowercase(sc_last'.name)) => ~sc_last'.ok
          /\ ~sc_last'.ok => sc'.catalog = sc.catalog]_vars

(***************************************************************************)
(* One table with typed columns: rows of Int and String values are stored  *)
(* by insert_row and read by a sequential scan (open, then next until it   *)
(* returns None). sc_last.inserted lists the rows stored (history).        *)
(***************************************************************************)
RowTable == "accounts"

\* ColumnInfo { name, data_type }
IntColumn == [name |-> "id", data_type |-> "Int"]
VarcharColumn == [name |-> "v", data_type |-> "Varchar"]

TypedColumnLists == {<<IntColumn>>, <<VarcharColumn>>, <<IntColumn, VarcharColumn>>}

\* The values a column of the type takes.
ValuesOf(data_type) ==
    IF data_type = "Int" THEN {IntValue(0), IntValue(1), IntValue(0 - 1)}
    ELSE {StringValue(<<>>), StringValue(<<97>>)}

\* The rows that match the column types.
RowsOf(columns) ==
    {row \in [1..Len(columns) -> UNION {ValuesOf(t) : t \in {"Int", "Varchar"}}] :
        \A i \in 1..Len(columns) : row[i] \in ValuesOf(columns[i].data_type)}

RowCreateTable(columns) ==
    /\ RowTable \notin DOMAIN sc.catalog.tables
    /\ sc' = [sc EXCEPT !.catalog = create_table(@, RowTable, columns).catalog]
    /\ sc_last' = [op |-> "create_table", ok |-> TRUE, inserted |-> <<>>]
    /\ UNCHANGED sc_others

RowInsert(row) ==
    /\ RowTable \in DOMAIN sc.catalog.tables
    /\ row \in RowsOf(sc.catalog.tables[RowTable].columns)
    /\ PinsBelowMax(sc.buffer_pool)
    /\ choose_page(sc.free_list, Len(serialize_row(row)) + SLOT_ENTRY_SIZE) # None
    /\ LET Stored(r) ==
               /\ sc' = r.st
               /\ sc_last' = [op |-> "insert_row", ok |-> r.ok,
                              inserted |-> IF r.ok THEN Append(sc_last.inserted, row)
                                           ELSE sc_last.inserted]
       IN Stored(Storage_insert_row(sc, RowTable, row, st_build))
    /\ UNCHANGED sc_others

\* A SELECT * planned as a sequential scan of the table.
RowScan ==
    /\ RowTable \in DOMAIN sc.catalog.tables
    /\ PinsBelowMax(sc.buffer_pool)
    /\ LET Read(n) ==
               /\ sc' = n.st
               /\ sc_last' = [op |-> "scan", ok |-> n.ok, inserted |-> sc_last.inserted,
                              rows |-> n.rows]
           Opened(o) ==
               IF ~o.ok
               THEN /\ sc' = o.st
                    /\ sc_last' = [op |-> "scan", ok |-> FALSE,
                                   inserted |-> sc_last.inserted, rows |-> <<>>]
               ELSE Read(SeqScanOp_next(o.st, sc.catalog.tables[RowTable].columns,
                                        o.rids, <<>>))
       IN Opened(SeqScanOp_open(sc, RowTable))
    /\ UNCHANGED sc_others

RowNext ==
    \/ \E columns \in TypedColumnLists : RowCreateTable(columns)
    \/ ScPreparePage
    \/ \E columns \in TypedColumnLists : \E row \in RowsOf(columns) : RowInsert(row)
    \/ RowScan

\* C36: the sequential scan of a table returns the rows that insert_row
\* stored in it, each as the sequence of values it was stored with.
C36_ScanReadsRowsAsStored ==
    sc_last.op = "scan" => (sc_last.ok /\ sc_last.rows = sc_last.inserted)

(***************************************************************************)
(* One slotted page, laid out by Page::new, taking tuples of zero, one or  *)
(* two bytes as long as the next one fits: the lengths of the tuples       *)
(* stored, plus four bytes each, stay within the page less its header.     *)
(***************************************************************************)
SlotPageSize == 30

Tuples == {<<>>, <<7>>, <<8, 9>>}

PgInit ==
    /\ pg = Page_new(0, SlotPageSize)
    /\ pg_log = <<>>

RECURSIVE StoredBytes(_)
StoredBytes(log) ==
    IF log = <<>> THEN 0 ELSE Len(Head(log).tuple) + SLOT_ENTRY_SIZE + StoredBytes(Tail(log))

\* insert_tuple(tuple)
PgInsert(tuple) ==
    /\ StoredBytes(pg_log) + Len(tuple) + SLOT_ENTRY_SIZE <= SlotPageSize - HEADER_SIZE
    /\ LET Inserted(r) ==
               /\ pg' = r.data
               /\ pg_log' = Append(pg_log, [tuple |-> tuple, ok |-> r.ok, rid |-> r.rid,
                                            free_before |-> free_space(pg, st_build).val,
                                            free_after |-> free_space(r.data, st_build).val])
       IN Inserted(insert_tuple(pg, tuple, st_build))
    /\ UNCHANGED pg_others

PgNext == \E tuple \in Tuples : PgInsert(tuple)

\* C20: every insert_tuple call that fits succeeds, get_tuple of the slot it
\* returned yields the tuple, iter_slots yields the slots of all the tuples
\* inserted, in slot order, and the free space after a call is at most the
\* free space before it.
C20_SlottedPageKeepsTuples ==
    /\ \A i \in 1..Len(pg_log) :
          /\ pg_log[i].ok
          /\ pg_log[i].rid = <<0, i - 1>>
          /\ get_tuple(pg, i - 1).some
          /\ get_tuple(pg, i - 1).tuple = pg_log[i].tuple
          /\ pg_log[i].free_after <= pg_log[i].free_before
    /\ ~iter_slots(pg).panic
    /\ iter_slots(pg).slots = [i \in 1..Len(pg_log) |-> i - 1]

(***************************************************************************)
(* The same page under any sequence of insert_tuple and delete_tuple       *)
(* calls, fitting or not, valid slot or not. pg_log keeps the last two     *)
(* calls.                                                                  *)
(***************************************************************************)
MaxSlotNo == 4

LastTwo(log, entry) == Append(IF Len(log) >= 2 THEN Tail(log) ELSE log, entry)

\* insert_tuple(tuple), whether it fits or not
PgInsertAny(tuple) ==
    /\ LET Inserted(r) ==
               /\ pg' = r.data
               /\ pg_log' = LastTwo(pg_log, [op |-> "insert_tuple", ok |-> r.ok, panic |-> r.panic])
       IN Inserted(insert_tuple(pg, tuple, st_build))
    /\ UNCHANGED pg_others

\* delete_tuple(slot_no), whether the slot exists or not
PgDelete(slot_no) ==
    /\ LET Deleted(r) ==
               /\ pg' = r.data
               /\ pg_log' = LastTwo(pg_log, [op |-> "delete_tuple", ok |-> r.ok, panic |-> r.panic])
       IN Deleted(delete_tuple(pg, slot_no))
    /\ UNCHANGED pg_others

PgAnyNext ==
    \/ \E tuple \in Tuples : PgInsertAny(tuple)
    \/ \E slot_no \in 0..MaxSlotNo : PgDelete(slot_no)

\* The slot entry of slot_no as stored: [off, len].
SlotEntry(data, slot_no) ==
    LET entry_off == HEADER_SIZE + slot_no * SLOT_ENTRY_SIZE
    IN [off |-> FromLE(SubSeq(data, entry_off + 1, entry_off + 2)),
        len |-> FromLE(SubSeq(data, entry_off + 3, entry_off + 4))]

LiveSlots(data) == {slot_no \in 0..(slot_count(data) - 1) : SlotEntry(data, slot_no).len # 0}

\* C21: after any calls of insert_tuple and delete_tuple, the slot directory
\* ends at or before free_space_off, free_space_off is at most the page
\* size, and the payloads of the slots that are not tombstones lie between
\* free_space_off and the end of the page without overlapping.
C21_SlotDirectoryBelowPayloads ==
    /\ payload_start(pg) <= free_space_off(pg)
    /\ free_space_off(pg) <= Len(pg)
    /\ \A i \in LiveSlots(pg) :
          /\ free_space_off(pg) <= SlotEntry(pg, i).off
          /\ SlotEntry(pg, i).off + SlotEntry(pg, i).len <= Len(pg)
          /\ \A j \in LiveSlots(pg) \ {i} :
                \/ SlotEntry(pg, i).off + SlotEntry(pg, i).len <= SlotEntry(pg, j).off
                \/ SlotEntry(pg, j).off + SlotEntry(pg, j).len <= SlotEntry(pg, i).off

\* A slot was deleted, then an insert_tuple failed, on a page that still
\* holds two tuples.
C21_Witness ==
    /\ Len(pg_log) = 2
    /\ pg_log[1].op = "delete_tuple" /\ pg_log[1].ok
    /\ pg_log[2].op = "insert_tuple" /\ ~pg_log[2].ok
    /\ Cardinality(LiveSlots(pg)) >= 2
    /\ Cardinality(LiveSlots(pg)) < slot_count(pg)

(***************************************************************************)
(* PageFile byte for byte (storage/pagefile.rs). A page file value is      *)
(* [file, page_size], file the bytes of the file. seek past the end        *)
(* followed by write_all leaves a hole that reads as zero bytes; read      *)
(* returns the bytes there are from the offset on, page_size at most. The  *)
(* page numbers of the driver are far from the overflow of checked_mul.    *)
(***************************************************************************)
PageFile_open(page_size) == [file |-> <<>>, page_size |-> page_size]

\* The offset a page number maps to, without the page size.
PageOffset_Unscaled(page_no, page_size) == page_no

\* page_no.checked_mul(page_size)
PageOffset(page_no, page_size) == page_no * page_size

\* seek(Start(offset)) + read(&mut buf): the bytes read
FileRead(file, offset, count) ==
    SubSeq(file, offset + 1, IF offset + count <= Len(file) THEN offset + count ELSE Len(file))

\* seek(Start(offset)) + write_all(buf): the file afterwards
FileWrite(file, offset, buf) ==
    LET len == Max(Len(file), offset + Len(buf))
    IN [i \in 1..len |->
           IF i > offset /\ i <= offset + Len(buf) THEN buf[i - offset]
           ELSE IF i <= Len(file) THEN file[i] ELSE 0]

\* PageFile::read_page: [ok, buf]
PageFile_read_page(f, page_no) ==
    LET buf == FileRead(f.file, PageOffset(page_no, f.page_size), f.page_size)
    IN IF Len(buf) # f.page_size THEN [ok |-> FALSE, buf |-> <<>>]
       ELSE [ok |-> TRUE, buf |-> buf]

\* PageFile::write_page: [ok, f]
PageFile_write_page(f, page_no, buf) ==
    IF Len(buf) # f.page_size THEN [ok |-> FALSE, f |-> f]
    ELSE [ok |-> TRUE,
          f |-> [f EXCEPT !.file = FileWrite(f.file, PageOffset(page_no, f.page_size), buf)]]

\* A page count that rounds past the last page.
PageFile_num_pages_RoundsPast(f) == Len(f.file) \div f.page_size + 1

\* PageFile::num_pages
PageFile_num_pages(f) == (Len(f.file) + f.page_size - 1) \div f.page_size

\* PageFile::allocate_page: [ok, page_no, f]
PageFile_allocate_page(f) ==
    LET new_page_no == PageFile_num_pages(f)
        zero_buf == [i \in 1..f.page_size |-> 0]
        w == PageFile_write_page(f, new_page_no, zero_buf)
    IN [ok |-> w.ok, page_no |-> new_page_no, f |-> w.f]

(***************************************************************************)
(* Clients of a fresh page file of two-byte pages: write_page of any of    *)
(* the first pages with a buffer of the right or of a wrong length,        *)
(* allocate_page, read_page.                                               *)
(***************************************************************************)
PfPageSize == 2
MaxPfPages == 3

PfPages == 0..(MaxPfPages - 1)
PfBufs == UNION {[1..n -> {0, 1}] : n \in (PfPageSize - 1)..(PfPageSize + 1)}

PfInit ==
    /\ pf = PageFile_open(PfPageSize)
    /\ pf_latest = <<>>
    /\ pf_last = [op |-> "open", ok |-> TRUE, page_no |-> 0, buf |-> <<>>]

Latest(latest, page_no, buf) ==
    [n \in DOMAIN latest \cup {page_no} |-> IF n = page_no THEN buf ELSE latest[n]]

\* write_page(page_no, buf)
PfWrite(page_no, buf) ==
    /\ LET Written(w) ==
               /\ pf' = w.f
               /\ pf_latest' = IF w.ok THEN Latest(pf_latest, page_no, buf) ELSE pf_latest
               /\ pf_last' = [op |-> "write_page", ok |-> w.ok, page_no |-> page_no, buf |-> buf]
       IN Written(PageFile_write_page(pf, page_no, buf))
    /\ UNCHANGED pf_others

\* allocate_page()
PfAllocate ==
    /\ PageFile_num_pages(pf) < MaxPfPages
    /\ LET Allocated(a) ==
               /\ pf' = a.f
               /\ pf_latest' = IF a.ok
                               THEN Latest(pf_latest, a.page_no, [i \in 1..pf.page_size |-> 0])
                               ELSE pf_latest
               /\ pf_last' = [op |-> "allocate_page", ok |-> a.ok, page_no |-> a.page_no,
                              buf |-> <<>>]
       IN Allocated(PageFile_allocate_page(pf))
    /\ UNCHANGED pf_others

\* read_page(page_no)
PfRead(page_no) ==
    /\ LET Read(r) ==
               pf_last' = [op |-> "read_page", ok |-> r.ok, page_no |-> page_no, buf |-> r.buf]
       IN Read(PageFile_read_page(pf, page_no))
    /\ UNCHANGED <<pf, pf_latest, pf_others>>

PfNext ==
    \/ \E page_no \in PfPages, buf \in PfBufs : PfWrite(page_no, buf)
    \/ PfAllocate
    \/ \E page_no \in PfPages : PfRead(page_no)

\* C22: read_page(n) returns the buffer of the most recent write_page(n, B)
\* that succeeded, whatever was written to other pages since.
C22_ReadReturnsLatestWrite ==
    /\ \A n \in DOMAIN pf_latest :
          PageFile_read_page(pf, n) = [ok |-> TRUE, buf |-> pf_latest[n]]
    /\ pf_last.op = "read_page" /\ pf_last.page_no \in DOMAIN pf_latest
          => pf_last.ok /\ pf_last.buf = pf_latest[pf_last.page_no]

\* A page written twice, then another page written, a write refused in
\* between, then the first page read.
C22_Witness ==
    /\ pf_last.op = "read_page" /\ pf_last.page_no = 0 /\ pf_last.ok
    /\ pf_last.buf = <<1, 0>>
    /\ DOMAIN pf_latest = {0, 2}
    /\ pf_latest[2] = <<1, 1>>

\* C23: allocate_page returns what num_pages() was, a page that was not in
\* the file; afterwards num_pages() is one more and the page reads as
\* page_size zero bytes.
C23_AllocateReturnsFreshZeroPage ==
    [][pf_last'.op = "allocate_page" =>
          /\ pf_last'.ok
          /\ pf_last'.page_no = PageFile_num_pages(pf)
          /\ ~PageFile_read_page(pf, pf_last'.page_no).ok
          /\ \A n \in DOMAIN pf_latest : n < pf_last'.page_no
          /\ PageFile_num_pages(pf') = PageFile_num_pages(pf) + 1
          /\ PageFile_read_page(pf', pf_last'.page_no) =
                 [ok |-> TRUE, buf |-> [i \in 1..pf.page_size |-> 0]]]_vars

\* allocate_page has returned page 2 after a write_page of page 1 on the
\* fresh file.
C23_Witness ==
    /\ pf_last.op = "allocate_page" /\ pf_last.page_no = 2
    /\ 1 \in DOMAIN pf_latest /\ 0 \notin DOMAIN pf_latest
    /\ pf_latest[1] # <<0, 0>>

(***************************************************************************)
(* The query server (net/server.rs, handle_request). Every request runs    *)
(* crash recovery first, parses its statement, draws a transaction id,     *)
(* logs Begin, takes the table lock its statement needs, does the          *)
(* statement's work under the storage write guard, logs Commit and calls   *)
(* unlock_all. An error after begin is turned into a response by map_err   *)
(* and then unwrapped: the request task panics after what the closure did. *)
(* What the statement's work returns, and whether the log file can be      *)
(* written, are inputs.                                                    *)
(***************************************************************************)
NumReq == 2
MaxTx == 2

Reqs == 1..NumReq
Stmts == {"Select", "Insert", "CreateTable", "CreateIndex"}

\* LockMode of the statement: Select reads, every other statement writes.
StmtMode(stmt) == IF stmt = "Select" THEN Shared ELSE Exclusive

\* flush whose write to the log file fails: the records were drained from
\* the buffer before the write, flushed_lsn is not advanced.
flush_failed(l, target_lsn) ==
    [l EXCEPT !.buffer = SubSeq(@, DrainCount(@, target_lsn) + 1, Len(@))]

\* log_commit / log_abort: append_record, then flush(lsn)?. [ok, lg, file]
log_end(l, file, tx, typ, io_ok) ==
    LET a == append_record(l, tx, typ, <<>>)
    IN IF io_ok
       THEN LET f == flush(a.lg, file, a.lsn)
            IN [ok |-> TRUE, lg |-> f.lg, file |-> f.file]
       ELSE [ok |-> FALSE, lg |-> flush_failed(a.lg, a.lsn), file |-> file]

\* unlock_all(tx) from the call to the return. [table, to_wake]
RECURSIVE unlock_all(_, _, _)
unlock_all(tbl, tx, rem) ==
    LET u == UnlockRun(tbl, tx, rem)
    IN IF u.rem = <<>> THEN [table |-> u.table, to_wake |-> u.to_wake]
       ELSE LET v == unlock_all(u.table, tx, u.rem)
            IN [table |-> v.table, to_wake |-> u.to_wake \cup v.to_wake]

IdleRequest == [pc |-> "idle", stmt |-> "Select", res |-> "accounts", tx |-> 0, closed |-> FALSE]

SrvInit ==
    /\ rq = [r \in Reqs |-> IdleRequest]
    /\ tx_counter = 1

\* A request arrives (on a connection whose last request has ended): recovery
\* runs over the WAL file, then the body is parsed into stmt on table res.
ReqRecover(r) ==
    /\ rq[r].pc \in {"idle", "done", "panicked"}
    /\ \E order \in KeyOrders(analysis_pass(wal).tx_status), stmt \in Stmts, res \in Resources :
          LET rec == recover(wal, db, order)
          IN /\ wal' = rec.file
             /\ db' = rec.data
             /\ rq' = [rq EXCEPT ![r] =
                         IF rec.ok THEN [IdleRequest EXCEPT !.pc = "parsed", !.stmt = stmt, !.res = res]
                         ELSE IdleRequest]
    /\ UNCHANGED <<lg, lm_table, lm_woken, tx_counter, sv_others>>

\* TX_COUNTER.fetch_add(1) and log_begin, which appends to the buffer.
ReqBegin(r) ==
    /\ rq[r].pc = "parsed"
    /\ tx_counter <= MaxTx
    /\ rq' = [rq EXCEPT ![r].pc = "begun", ![r].tx = tx_counter]
    /\ tx_counter' = tx_counter + 1
    /\ lg' = append_record(lg, tx_counter, Begin, <<>>).lg
    /\ UNCHANGED <<wal, db, lm_table, lm_woken, sv_others>>

\* lock_mgr.lock(tx, Resource::Table(res), mode) up to the grant or the wait.
ReqLock(r) ==
    /\ rq[r].pc = "begun"
    /\ LET tbl == TableEntry(lm_table, rq[r].res)
           mode == StmtMode(rq[r].stmt)
       IN IF can_grant(tbl[rq[r].res], mode)
          THEN /\ lm_table' = [tbl EXCEPT ![rq[r].res].holders = Append(@, <<rq[r].tx, mode>>)]
               /\ rq' = [rq EXCEPT ![r].pc = "locked"]
          ELSE /\ lm_table' = [tbl EXCEPT ![rq[r].res].queue = Append(@, [tx |-> rq[r].tx, mode |-> mode])]
               /\ rq' = [rq EXCEPT ![r].pc = "waiting"]
    /\ UNCHANGED <<lg, wal, db, lm_woken, tx_counter, sv_others>>

\* The waiting lock() call is woken and returns.
ReqGranted(r) ==
    /\ rq[r].pc = "waiting"
    /\ rq[r].tx \in lm_woken
    /\ rq' = [rq EXCEPT ![r].pc = "locked"]
    /\ lm_woken' = lm_woken \ {rq[r].tx}
    /\ UNCHANGED <<lg, wal, db, lm_table, tx_counter, sv_others>>

\* What the handler does from the storage write guard to its end, given that
\* the statement's work returned work_ok and that the log file takes the
\* Commit record (commit_io) and the Abort record (abort_io).
\* [pc, closed, lg, file, unlock]
Finish(stmt, tx, l, file, work_ok, commit_io, abort_io) ==
    LET Aborted(ab) ==
            [pc |-> "panicked", closed |-> TRUE, lg |-> ab.lg, file |-> ab.file, unlock |-> TRUE]
        Committed(c) ==
            IF c.ok
            THEN [pc |-> "done", closed |-> TRUE, lg |-> c.lg, file |-> c.file, unlock |-> TRUE]
            ELSE IF stmt \in {"CreateTable", "CreateIndex"}
            THEN [pc |-> "panicked", closed |-> TRUE, lg |-> c.lg, file |-> c.file, unlock |-> FALSE]
            ELSE Aborted(log_end(c.lg, c.file, tx, Abort, abort_io))
    IN IF work_ok THEN Committed(log_end(l, file, tx, Commit, commit_io))
       ELSE Aborted(log_end(l, file, tx, Abort, abort_io))

ReqExecute(r) ==
    /\ rq[r].pc = "locked"
    /\ \E work_ok, commit_io, abort_io \in BOOLEAN, order \in KeyOrders(lm_table) :
          LET fin == Finish(rq[r].stmt, rq[r].tx, lg, wal, work_ok, commit_io, abort_io)
              u == unlock_all(lm_table, rq[r].tx, order)
          IN /\ lg' = fin.lg
             /\ wal' = fin.file
             /\ rq' = [rq EXCEPT ![r].pc = fin.pc, ![r].closed = fin.closed]
             /\ lm_table' = IF fin.unlock THEN u.table ELSE lm_table
             /\ lm_woken' = IF fin.unlock THEN lm_woken \cup u.to_wake ELSE lm_woken
    /\ UNCHANGED <<db, tx_counter, sv_others>>

SrvNext ==
    \E r \in Reqs : ReqRecover(r) \/ ReqBegin(r) \/ ReqLock(r) \/ ReqGranted(r) \/ ReqExecute(r)

\* The requests that have ended after their transaction began.
Ended(r) == rq[r].pc \in {"done", "panicked"} /\ rq[r].tx # 0

\* The record types the WAL file holds for transaction tx, in file order.
TypsOf(file, tx) ==
    LET of_tx == SelectSeq(file, LAMBDA b : deserialize_record(b).header.tx_id = tx)
    IN [i \in 1..Len(of_tx) |-> deserialize_record(of_tx[i]).header.typ]

\* C13: every request that has ended after its transaction began has had
\* log_commit or log_abort called for the transaction and has called
\* unlock_all: the transaction holds no lock and waits for none.
C13_EveryExitEndsTheTransaction ==
    \A r \in Reqs :
        Ended(r) =>
            /\ rq[r].closed
            /\ \A res \in DOMAIN lm_table :
                  rq[r].tx \notin HoldersOf(lm_table, res) \cup WaitersOf(lm_table, res)

\* C14: in the WAL file a Commit or Abort record of a transaction is the
\* last record of that transaction: no transaction has both, and none has a
\* record after its Commit or Abort, whatever the concurrent requests and
\* the recovery each of them runs do.
C14_OutcomeIsTerminal ==
    \A tx \in 1..MaxTx :
        \A i \in 1..Len(TypsOf(wal, tx)) :
            TypsOf(wal, tx)[i] \in {Commit, Abort} => i = Len(TypsOf(wal, tx))

(***************************************************************************)
(* The SQL lexer and Parser::new (query/lexer.rs, query/parser.rs). A text *)
(* is the sequence of its characters, all ASCII, so that a character is    *)
(* one byte of src.                                                        *)
(***************************************************************************)
LowerLetters == <<"a", "b", "c", "d", "e", "f", "g", "h", "i", "j", "k", "l", "m", "n", "o", "p", "q", "r", "s", "t", "u", "v", "w", "x", "y", "z">>
UpperLetters == <<"A", "B", "C", "D", "E", "F", "G", "H", "I", "J", "K", "L", "M", "N", "O", "P", "Q", "R", "S", "T", "U", "V", "W", "X", "Y", "Z">>

\* char::is_ascii_digit, char::is_ascii_alphabetic, char::is_whitespace
AsciiDigits == {"0", "1", "2", "3", "4", "5", "6", "7", "8", "9"}
AsciiLetters == Range(LowerLetters) \cup Range(UpperLetters)
Whitespace == {" ", "\n"}

\* str::to_ascii_uppercase
to_ascii_uppercase(text) ==
    [i \in 1..Len(text) |->
        IF text[i] \in Range(LowerLetters)
        THEN UpperLetters[CHOOSE k \in 1..Len(LowerLetters) : LowerLetters[k] = text[i]]
        ELSE text[i]]

\* Lexer::new
Lexer_new(src) == [input |-> src, src |-> src, idx |-> 0]

\* Lexer::next_char: [c, l], c the character consumed or None
next_char(l) ==
    IF l.input = <<>> THEN [c |-> None, l |-> l]
    ELSE [c |-> Some(Head(l.input)), l |-> [l EXCEPT !.input = Tail(@), !.idx = @ + 1]]

\* while matches!(self.peek_char(), Some(c) if c in set) { self.next_char(); }
RECURSIVE TakeWhile(_, _)
TakeWhile(l, set) ==
    IF l.input # <<>> /\ Head(l.input) \in set THEN TakeWhile(next_char(l).l, set) ELSE l

\* while let Some(c) = self.peek_char() { if c == '\n' { break; } self.next_char(); }
RECURSIVE ToNewline(_)
ToNewline(l) ==
    IF l.input # <<>> /\ Head(l.input) # "\n" THEN ToNewline(next_char(l).l) ELSE l

\* Lexer::skip_whitespace_and_comments
RECURSIVE skip_whitespace_and_comments(_)
skip_whitespace_and_comments(l) ==
    LET Comment(l1) ==
            IF Len(l1.input) >= 2 /\ l1.input[1] = "-" /\ l1.input[2] = "-"
            THEN skip_whitespace_and_comments(ToNewline(next_char(next_char(l1).l).l))
            ELSE l1
    IN Comment(TakeWhile(l, Whitespace))

\* Lexer::read_string, the opening quote consumed: [ok, text, l]
RECURSIVE read_string(_, _)
read_string(l, result) ==
    LET Got(n) ==
            IF n.c = None THEN [ok |-> FALSE, text |-> result, l |-> n.l]
            ELSE IF n.c[1] = "'" THEN [ok |-> TRUE, text |-> result, l |-> n.l]
            ELSE read_string(n.l, Append(result, n.c[1]))
    IN Got(next_char(l))

\* self.idx -= c.len_utf8(); self.input.next_back(): the index goes back by
\* the character just consumed, and the Peekable, which has nothing peeked,
\* gives up the last character it had still to yield.
BackUp(l) ==
    [l EXCEPT !.idx = @ - 1,
              !.input = IF @ = <<>> THEN @ ELSE SubSeq(@, 1, Len(@) - 1)]

\* Lexer::read_number and Lexer::read_identifier_or_keyword: the characters
\* of the class are consumed and src[start_idx..idx] is the text. [text, l]
ReadWhile(l, set) ==
    LET Sliced(l2) == [text |-> SubSeq(l.src, l.idx + 1, l2.idx), l |-> l2]
    IN Sliced(TakeWhile(l, set))

\* the match on ident.as_str() of next_token
KeywordOrIdentifier(ident) ==
    CASE
         ident = <<"S", "E", "L", "E", "C", "T">> -> "Select"
      [] ident = <<"I", "N", "S", "E", "R", "T">> -> "Insert"
      [] ident = <<"U", "P", "D", "A", "T", "E">> -> "Update"
      [] ident = <<"D", "E", "L", "E", "T", "E">> -> "Delete"
      [] ident = <<"F", "R", "O", "M">> -> "From"
      [] ident = <<"W", "H", "E", "R", "E">> -> "Where"
      [] ident = <<"A", "N", "D">> -> "And"
      [] ident = <<"O", "R">> -> "Or"
      [] ident = <<"C", "R", "E", "A", "T", "E">> -> "Create"
      [] ident = <<"T", "A", "B", "L", "E">> -> "Table"
      [] ident = <<"I", "N", "T", "O">> -> "Into"
      [] ident = <<"V", "A", "L", "U", "E", "S">> -> "Values"
      [] OTHER -> "Identifier"

\* Lexer::next_token: [ok, kind, text, l]
next_token(l) ==
    LET Tok(kind, text, l1) == [ok |-> TRUE, kind |-> kind, text |-> text, l |-> l1]
        Err(kind, l1) == [ok |-> FALSE, kind |-> kind, text |-> <<>>, l |-> l1]
        Peek(l1, c) == l1.input # <<>> /\ Head(l1.input) = c
        Str(r) == IF r.ok THEN Tok("StringLiteral", r.text, r.l)
                  ELSE Err("UnterminatedString", r.l)
        \* str::parse::<i64> of digits: an error on the empty text (the texts
        \* of the model are too short to overflow an i64)
        Num(r) == IF r.text = <<>> THEN Err("InvalidNumber", r.l)
                  ELSE Tok("IntLiteral", r.text, r.l)
        Ident(r) == Tok(KeywordOrIdentifier(to_ascii_uppercase(r.text)),
                        to_ascii_uppercase(r.text), r.l)
        Got(c, l1) ==
            CASE c = "," -> Tok("Comma", <<>>, l1)
              [] c = ";" -> Tok("Semicolon", <<>>, l1)
              [] c = "(" -> Tok("LParen", <<>>, l1)
              [] c = ")" -> Tok("RParen", <<>>, l1)
              [] c = "+" -> Tok("Plus", <<>>, l1)
              [] c = "-" -> Tok("Minus", <<>>, l1)
              [] c = "*" -> Tok("Star", <<>>, l1)
              [] c = "/" -> Tok("Slash", <<>>, l1)
              [] c = "=" -> Tok("Eq", <<>>, l1)
              [] c = "<" -> IF Peek(l1, "=") THEN Tok("LtEq", <<>>, next_char(l1).l)
                            ELSE IF Peek(l1, ">") THEN Tok("NotEq", <<>>, next_char(l1).l)
                            ELSE Tok("Lt", <<>>, l1)
              [] c = ">" -> IF Peek(l1, "=") THEN Tok("GtEq", <<>>, next_char(l1).l)
                            ELSE Tok("Gt", <<>>, l1)
              [] c = "'" -> Str(read_string(l1, <<>>))
              [] c \in AsciiDigits -> Num(ReadWhile(BackUp(l1), AsciiDigits))
              [] c \in AsciiLetters \cup {"_"} ->
                     Ident(ReadWhile(BackUp(l1), AsciiDigits \cup AsciiLetters \cup {"_"}))
              [] OTHER -> Err("UnexpectedChar", l1)
        Next(n) == IF n.c = None THEN Tok("EOF", <<>>, n.l) ELSE Got(n.c[1], n.l)
    IN Next(next_char(skip_whitespace_and_comments(l)))

\* <Lexer as Iterator>::next: Some(item) in every case. [some, item]
Lexer_next(l) == [some |-> TRUE, item |-> next_token(l)]

(***************************************************************************)
(* Parser::new(src) on the texts of at most MaxTextLen characters over     *)
(* TextChars; the loop `for item in Lexer::new(src)` is followed until the *)
(* Vec holds MaxEof EOF tokens.                                            *)
(***************************************************************************)
MaxTextLen == 3
MaxEof == 2

TextChars == {"o", "r", "1", " ", "\n", "-", "'", "<", "?"}

Texts == UNION {[1..n -> TextChars] : n \in 0..MaxTextLen}

EofCount(tokens) == Len(SelectSeq(tokens, LAMBDA t : t.kind = "EOF"))

LxInit ==
    /\ lx = Lexer_new(<<>>)
    /\ lx_tokens = <<>>
    /\ lx_pc = "idle"

\* Parser::new(src) is called: Lexer::new(src), tokens = Vec::new()
ParserNew(src) ==
    /\ lx_pc = "idle"
    /\ lx' = Lexer_new(src)
    /\ lx_tokens' = <<>>
    /\ lx_pc' = "lexing"
    /\ UNCHANGED lx_others

\* One turn of the for loop of Parser::new: the iterator is asked for its
\* next item; None ends the loop, an error returns it, a token is pushed.
ParserLoop ==
    /\ lx_pc = "lexing"
    /\ EofCount(lx_tokens) < MaxEof
    /\ LET Turn(n) ==
               /\ lx' = n.item.l
               /\ lx_pc' = IF ~n.some THEN "done"
                           ELSE IF ~n.item.ok THEN "error" ELSE "lexing"
               /\ lx_tokens' = IF n.some /\ n.item.ok
                               THEN Append(lx_tokens, [kind |-> n.item.kind,
                                                       text |-> n.item.text])
                               ELSE lx_tokens
       IN Turn(Lexer_next(lx))
    /\ UNCHANGED lx_others

LexNext ==
    \/ \E src \in Texts : ParserNew(src)
    \/ ParserLoop

\* C38: Parser::new returns for every text, with an error of the lexer or
\* with a token list that ends in its one EOF token: the list never holds
\* a token after an EOF token, and the call does not stay in its loop.
C38_TokenizingTerminates ==
    /\ [](\A i \in 1..Len(lx_tokens) : lx_tokens[i].kind = "EOF" => i = Len(lx_tokens))
    /\ [](lx_pc = "done" => (lx_tokens # <<>> /\ lx_tokens[Len(lx_tokens)].kind = "EOF"))
    /\ (lx_pc = "lexing") ~> (lx_pc \in {"done", "error"})

(***************************************************************************)
(* The optimizer (query/optimizer.rs). Filter and Projection have one      *)
(* input each and the other plans none, so a LogicalPlan is the sequence   *)
(* of its Filter and Projection nodes, the outermost first, over its leaf. *)
(***************************************************************************)
Atom(a) == [atom |-> a]
And(left, right) == [op |-> "And", left |-> left, right |-> right]

Filter(predicate) == [kind |-> "Filter", predicate |-> predicate]
Projection(exprs) == [kind |-> "Projection", exprs |-> exprs]

Plan(nodes, leaf) == [nodes |-> nodes, leaf |-> leaf]

\* apply_rules without its three rules
apply_rules_NoRule(plan) == plan

\* Optimizer::apply_rules: the rules at the outermost node
apply_rules(plan) ==
    LET n == plan.nodes
        rest == SubSeq(n, 3, Len(n))
        Over(outer, inner) == Len(n) >= 2 /\ n[1].kind = outer /\ n[2].kind = inner
    IN IF Over("Filter", "Filter")
       THEN [plan EXCEPT !.nodes = <<Filter(And(n[2].predicate, n[1].predicate))>> \o rest]
       ELSE IF Over("Filter", "Projection")
       THEN [plan EXCEPT !.nodes = <<n[2], n[1]>> \o rest]
       ELSE IF Over("Projection", "Projection")
       THEN [plan EXCEPT !.nodes = <<n[1]>> \o rest]
       ELSE plan

\* Optimizer::rewrite: the input is rewritten first, then the rules are
\* applied to the node rebuilt over it
RECURSIVE rewrite(_)
rewrite(plan) ==
    IF plan.nodes = <<>> THEN plan
    ELSE LET Rebuilt(input_opt) ==
                 apply_rules([plan EXCEPT !.nodes = <<Head(plan.nodes)>> \o input_opt.nodes])
         IN CHOOSE rewritten \in {Rebuilt(input_opt) :
                                     input_opt \in {rewrite([plan EXCEPT !.nodes = Tail(@)])}} : TRUE

\* The plans of at most MaxPlanDepth Filter and Projection nodes.
MaxPlanDepth == 4

PlanNodes == {Filter(Atom("p")), Filter(Atom("q")), Projection(<<"a">>), Projection(<<"b">>)}

PlanLeaves == {"SeqScan", "Insert", "CreateTable"}

Plans == {Plan(nodes, leaf) : nodes \in UNION {[1..d -> PlanNodes] : d \in 0..MaxPlanDepth},
                              leaf \in PlanLeaves}

OptInit ==
    /\ opt_in = Plan(<<>>, "SeqScan")
    /\ opt_cur = Plan(<<>>, "SeqScan")
    /\ opt_passes = 0
    /\ opt_pc = "idle"

\* Optimizer::optimize(plan) is called: current = plan
Optimize(plan) ==
    /\ opt_pc = "idle"
    /\ opt_in' = plan
    /\ opt_cur' = plan
    /\ opt_passes' = 0
    /\ opt_pc' = "loop"
    /\ UNCHANGED opt_others

\* One turn of the loop of optimize: next = rewrite(&current); the loop
\* breaks with next when it prints as current does, else current = next.
OptimizeLoop ==
    /\ opt_pc = "loop"
    /\ LET Turn(next) ==
               /\ opt_cur' = next
               /\ opt_pc' = IF next = opt_cur THEN "done" ELSE "loop"
       IN Turn(rewrite(opt_cur))
    /\ opt_passes' = opt_passes + 1
    /\ UNCHANGED <<opt_in, opt_others>>

OptNext ==
    \/ \E plan \in Plans : Optimize(plan)
    \/ OptimizeLoop

\* No Filter over a Filter, no Filter over a Projection, no Projection over a
\* Projection.
NormalForm(plan) ==
    \A i \in 1..(Len(plan.nodes) - 1) :
        LET Over(outer, inner) ==
                plan.nodes[i].kind = outer /\ plan.nodes[i + 1].kind = inner
        IN /\ ~Over("Filter", "Filter")
           /\ ~Over("Filter", "Projection")
           /\ ~Over("Projection", "Projection")

\* C40: optimize returns for every plan, and the plan it returns has no
\* Filter whose input is a Filter, no Filter whose input is a Projection and
\* no Projection whose input is a Projection.
C40_OptimizeReachesNormalForm ==
    /\ [](opt_pc = "done" => NormalForm(opt_cur))
    /\ (opt_pc = "loop") ~> (opt_pc = "done")

\* optimize has returned for a plan with a Filter over a Projection over a
\* Filter, which takes more than one rewriting pass.
C40_Witness ==
    /\ opt_pc = "done"
    /\ Len(opt_in.nodes) = MaxPlanDepth
    /\ ~NormalForm(opt_in)
    /\ opt_passes >= 3

(***************************************************************************)
(* The specifications: each drives one subsystem and leaves the others     *)
(* alone.                                                                  *)
(***************************************************************************)
Init ==
    /\ BPInit /\ LMInit /\ WalInit /\ StInit /\ BTInit /\ SrvInit /\ ScInit /\ PgInit
    /\ PfInit /\ TwInit /\ LxInit /\ OptInit

\* Only the slotted-page arithmetic depends on the build; the specifications
\* that never run it are explored under one build.
InitOneBuild == Init /\ st_build = "debug"

SpecBP == InitOneBuild /\ [][BPNext]_vars

SpecVictim == InitOneBuild /\ [][VictimNext]_vars

SpecLock == InitOneBuild /\ [][LMNext]_vars

\* A woken lock() call is resumed by the runtime, and unlock_all, which runs
\* without awaiting, takes the table mutex again after waking.
SpecLockFair ==
    SpecLock /\ \A tx \in Txs : WF_vars(LockReturn(tx)) /\ WF_vars(UnlockResume(tx))

SpecWal == InitOneBuild /\ [][WalNext]_vars

SpecRec == InitOneBuild /\ [][RecNext]_vars

SpecTorn == InitOneBuild /\ [][TornNext]_vars

SpecSt == Init /\ [][StNext]_vars

SpecBT == InitOneBuild /\ [][BTNext]_vars

SpecIdx == Init /\ [][IdxNext]_vars

SpecDeep == InitOneBuild /\ [][DeepNext]_vars

SpecBTAgain == InitOneBuild /\ [][BTAgainNext]_vars

SpecSrv == InitOneBuild /\ [][SrvNext]_vars

SpecScan == InitOneBuild /\ [][ScNext]_vars

SpecRows == InitOneBuild /\ [][RowNext]_vars

SpecLex == InitOneBuild /\ [][LexNext]_vars

\* The loop of Parser::new runs on as long as it has a turn to take.
SpecLexFair == SpecLex /\ WF_vars(ParserLoop)

SpecOpt == InitOneBuild /\ [][OptNext]_vars

\* The loop of optimize runs on as long as it has a turn to take.
SpecOptFair == SpecOpt /\ WF_vars(OptimizeLoop)

SpecCat == InitOneBuild /\ [][CatNext]_vars

SpecPage == Init /\ [][PgNext]_vars

SpecSlots == Init /\ [][PgAnyNext]_vars

SpecPf == InitOneBuild /\ [][PfNext]_vars

====
